---- MODULE Spec2Model ----
(***************************************************************************)
(* ProductAnalyzer: the report input normalization and persistence         *)
(* pipeline (request middleware, POST /api/reports, POST /api/analyze,     *)
(* the zod validator and the Supabase storage adapter).                    *)
(*                                                                         *)
(* Strings are sequences of one-character strings, so that trim, split,    *)
(* includes and JSON.parse are computed and not assumed.  JavaScript       *)
(* values are records of one shape, tagged by t.                           *)
(***************************************************************************)
EXTENDS Integers, Sequences, FiniteSets, TLC

(***************************************************************************)
(* JavaScript values                                                       *)
(***************************************************************************)
\* t: the tag; s: a string's characters; n, e: the number n * 10^(-e);
\* a: the members of an array or the values of an object; k: an object's keys.
JsVal(t, s, n, e, a, k) == [t |-> t, s |-> s, n |-> n, e |-> e, a |-> a, k |-> k]

Undefined == JsVal("undefined", <<>>, 0, 0, <<>>, <<>>)
Null == JsVal("null", <<>>, 0, 0, <<>>, <<>>)
NaN == JsVal("nan", <<>>, 0, 0, <<>>, <<>>)
Str(cs) == JsVal("string", cs, 0, 0, <<>>, <<>>)
Bool(b) == JsVal("boolean", <<>>, IF b THEN 1 ELSE 0, 0, <<>>, <<>>)
Arr(xs) == JsVal("array", <<>>, 0, 0, xs, <<>>)
Obj(ks, vs) == JsVal("object", <<>>, 0, 0, vs, ks)

RECURSIVE NormDec(_, _)
\* The canonical form of n * 10^(-e): no trailing zero in the fraction.
NormDec(n, e) ==
  IF e > 0 /\ n % 10 = 0 THEN NormDec(n \div 10, e - 1)
  ELSE [n |-> n, e |-> e]

Num(n, e) ==
  LET d == NormDec(n, e) IN JsVal("number", <<>>, d.n, d.e, <<>>, <<>>)

\* typeof v
TypeOf(v) ==
  CASE v.t \in {"null", "array", "object"} -> "object"
    [] v.t = "nan" -> "number"
    [] OTHER -> v.t

IsArray(v) == v.t = "array"

\* The truthiness of v (if (v), v && ..., v || ..., !v, filter(Boolean)).
Truthy(v) ==
  CASE v.t \in {"undefined", "null", "nan"} -> FALSE
    [] v.t = "string" -> v.s # <<>>
    [] v.t \in {"number", "boolean"} -> v.n # 0
    [] OTHER -> TRUE

(***************************************************************************)
(* Strings                                                                 *)
(***************************************************************************)
Quote == "\""
Backslash == "\\"
LF == "\n"
Tab == "\t"
Digits == {"0", "1", "2", "3", "4", "5", "6", "7", "8", "9"}
\* What String.prototype.trim strips (of the characters modelled).
WhiteSpace == {" ", LF, Tab}

SetMin(S) == CHOOSE x \in S : \A y \in S : x <= y
SetMax(S) == CHOOSE x \in S : \A y \in S : y <= x

DigitVal(c) ==
  CASE c = "0" -> 0 [] c = "1" -> 1 [] c = "2" -> 2 [] c = "3" -> 3
    [] c = "4" -> 4 [] c = "5" -> 5 [] c = "6" -> 6 [] c = "7" -> 7
    [] c = "8" -> 8 [] c = "9" -> 9

DigitChar(d) ==
  CASE d = 0 -> "0" [] d = 1 -> "1" [] d = 2 -> "2" [] d = 3 -> "3"
    [] d = 4 -> "4" [] d = 5 -> "5" [] d = 6 -> "6" [] d = 7 -> "7"
    [] d = 8 -> "8" [] d = 9 -> "9"

\* s.trim()
Trim(s) ==
  LET idx == {i \in 1..Len(s) : s[i] \notin WhiteSpace}
  IN IF idx = {} THEN <<>> ELSE SubSeq(s, SetMin(idx), SetMax(idx))

RECURSIVE Split(_, _)
\* s.split(c) for a one-character separator c
Split(s, c) ==
  LET idx == {i \in 1..Len(s) : s[i] = c}
  IN IF idx = {} THEN <<s>>
     ELSE LET i == SetMin(idx)
          IN <<SubSeq(s, 1, i - 1)>> \o Split(SubSeq(s, i + 1, Len(s)), c)

\* s.includes(sub)
Includes(s, sub) ==
  \E i \in 0..(Len(s) - Len(sub)) : SubSeq(s, i + 1, i + Len(sub)) = sub

\* s.startsWith(sub)
StartsWith(s, sub) == Len(s) >= Len(sub) /\ SubSeq(s, 1, Len(sub)) = sub

\* The first position from i on whose character is not in S (Len(s)+1: none).
ScanWhile(s, i, S) ==
  SetMin({j \in i..(Len(s) + 1) : j = Len(s) + 1 \/ s[j] \notin S})

RECURSIVE DigitsVal(_, _, _)
\* The value of the decimal digits s[i..j-1].
DigitsVal(s, i, j) ==
  IF j <= i THEN 0 ELSE DigitsVal(s, i, j - 1) * 10 + DigitVal(s[j - 1])

RECURSIVE Pow10(_)
Pow10(x) == IF x <= 0 THEN 1 ELSE 10 * Pow10(x - 1)

(***************************************************************************)
(* JSON.parse                                                              *)
(***************************************************************************)
\* The whitespace JSON allows between tokens.
JsonWs == {" ", LF, Tab, "\r"}

PFail == [ok |-> FALSE, v |-> Undefined, i |-> 0]
POk(v, i) == [ok |-> TRUE, v |-> v, i |-> i]

\* Whether the characters of lit stand at position i of s.
LitAt(s, i, lit) ==
  i + Len(lit) - 1 <= Len(s) /\ SubSeq(s, i, i + Len(lit) - 1) = lit

RECURSIVE ParseStr(_, _, _)
\* The rest of a string literal whose opening quote precedes position i.
ParseStr(s, i, acc) ==
  IF i > Len(s) THEN PFail
  ELSE IF s[i] = Quote THEN POk(Str(acc), i + 1)
  ELSE IF s[i] = Backslash THEN
    IF i + 1 > Len(s) THEN PFail
    ELSE IF s[i + 1] \in {Quote, Backslash, "/"}
      THEN ParseStr(s, i + 2, Append(acc, s[i + 1]))
    ELSE IF s[i + 1] = "n" THEN ParseStr(s, i + 2, Append(acc, LF))
    ELSE IF s[i + 1] = "t" THEN ParseStr(s, i + 2, Append(acc, Tab))
    ELSE PFail
  ELSE IF s[i] \in {LF, Tab, "\r"} THEN PFail
  ELSE ParseStr(s, i + 1, Append(acc, s[i]))

\* The value of a scanned decimal literal of s: integer digits i0..i1-1,
\* fraction digits f0..f1-1, exponent digits x0..x1-1 with sign xs, as the
\* number n * 10^(-e).
DecValue(s, i0, i1, f0, f1, x0, x1, xs) ==
  Num((DigitsVal(s, i0, i1) * Pow10(f1 - f0) + DigitsVal(s, f0, f1))
        * Pow10(xs * DigitsVal(s, x0, x1) - (f1 - f0)),
      IF xs * DigitsVal(s, x0, x1) >= f1 - f0 THEN 0
      ELSE (f1 - f0) - xs * DigitsVal(s, x0, x1))

\* The exponent part that may stand at position p: where its digits start
\* (x0) and end (x1), and its sign; x1 = x0 when there is an e without digits,
\* and x0 = x1 = p when there is no exponent part.
ExpAt(s, p) ==
  IF p <= Len(s) /\ s[p] \in {"e", "E"} THEN
    IF p + 1 <= Len(s) /\ s[p + 1] \in {"+", "-"}
      THEN [has |-> TRUE, x0 |-> p + 2, x1 |-> ScanWhile(s, p + 2, Digits),
            xs |-> IF s[p + 1] = "-" THEN -1 ELSE 1]
      ELSE [has |-> TRUE, x0 |-> p + 1, x1 |-> ScanWhile(s, p + 1, Digits), xs |-> 1]
  ELSE [has |-> FALSE, x0 |-> p, x1 |-> p, xs |-> 1]

\* The fraction part that may stand at position p: its digits f0..f1-1.
FracAt(s, p) ==
  IF p <= Len(s) /\ s[p] = "."
    THEN [has |-> TRUE, f0 |-> p + 1, f1 |-> ScanWhile(s, p + 1, Digits)]
    ELSE [has |-> FALSE, f0 |-> p, f1 |-> p]

\* The decimal literal whose digits start at i0: int frac? exp?
DecExp(s, i0, i1, fr, ex) ==
  [i0 |-> i0, i1 |-> i1, fr |-> fr, ex |-> ex,
   v |-> DecValue(s, i0, i1, fr.f0, fr.f1, ex.x0, ex.x1, ex.xs)]
DecFrac(s, i0, i1, fr) == DecExp(s, i0, i1, fr, ExpAt(s, fr.f1))
DecInt(s, i0, i1) == DecFrac(s, i0, i1, FracAt(s, i1))
DecScan(s, i0) == DecInt(s, i0, ScanWhile(s, i0, Digits))

Negate(v) == Num(-v.n, v.e)

\* JSON's number grammar on a scanned literal: -? (0 | [1-9][0-9]*) frac? exp?
JsonNumber(s, neg, d) ==
  IF d.i1 = d.i0 THEN PFail
  ELSE IF d.i1 - d.i0 > 1 /\ s[d.i0] = "0" THEN PFail
  ELSE IF d.fr.has /\ d.fr.f1 = d.fr.f0 THEN PFail
  ELSE IF d.ex.has /\ d.ex.x1 = d.ex.x0 THEN PFail
  ELSE POk(IF neg THEN Negate(d.v) ELSE d.v, d.ex.x1)

\* A number literal at position i.
ParseNumber(s, i) ==
  IF s[i] = "-" THEN JsonNumber(s, TRUE, DecScan(s, i + 1))
  ELSE JsonNumber(s, FALSE, DecScan(s, i))

RECURSIVE ParseValue(_, _), ParseElems(_, _, _), ParseMembers(_, _, _, _)
RECURSIVE ArrayAt(_, _, _), ObjectAt(_, _, _)
\* The JSON value whose first character stands at position j.
ValueAt(s, j) ==
  IF j > Len(s) THEN PFail
  ELSE IF s[j] = "[" THEN ArrayAt(s, j, ScanWhile(s, j + 1, JsonWs))
  ELSE IF s[j] = "{" THEN ObjectAt(s, j, ScanWhile(s, j + 1, JsonWs))
  ELSE IF s[j] = Quote THEN ParseStr(s, j + 1, <<>>)
  ELSE IF s[j] \in Digits \cup {"-"} THEN ParseNumber(s, j)
  ELSE IF LitAt(s, j, <<"n", "u", "l", "l">>) THEN POk(Null, j + 4)
  ELSE IF LitAt(s, j, <<"t", "r", "u", "e">>) THEN POk(Bool(TRUE), j + 4)
  ELSE IF LitAt(s, j, <<"f", "a", "l", "s", "e">>) THEN POk(Bool(FALSE), j + 5)
  ELSE PFail

\* The JSON value that starts at or after position i.
ParseValue(s, i) == ValueAt(s, ScanWhile(s, i, JsonWs))

\* An array whose [ stands at j, k the first position after it that is not
\* whitespace.
ArrayAt(s, j, k) ==
  IF k <= Len(s) /\ s[k] = "]" THEN POk(Arr(<<>>), k + 1)
  ELSE ParseElems(s, j + 1, <<>>)

\* An object whose { stands at j.
ObjectAt(s, j, k) ==
  IF k <= Len(s) /\ s[k] = "}" THEN POk(Obj(<<>>, <<>>), k + 1)
  ELSE ParseMembers(s, j + 1, <<>>, <<>>)

\* After an element r: a comma and the next element, or the end.
ElemEnd(s, r, k, acc) ==
  IF k > Len(s) THEN PFail
  ELSE IF s[k] = "," THEN ParseElems(s, k + 1, Append(acc, r.v))
  ELSE IF s[k] = "]" THEN POk(Arr(Append(acc, r.v)), k + 1)
  ELSE PFail

ElemValue(s, r, acc) ==
  IF ~r.ok THEN PFail ELSE ElemEnd(s, r, ScanWhile(s, r.i, JsonWs), acc)

\* The elements of an array from position i on, acc those already read.
ParseElems(s, i, acc) == ElemValue(s, ParseValue(s, i), acc)

\* Set key to v in an object's keys ks and values vs (a repeated key keeps
\* its first position and takes the last value).
ObjSet(ks, vs, key, v) ==
  IF \E x \in 1..Len(ks) : ks[x] = key
    THEN [ks |-> ks,
          vs |-> [x \in 1..Len(vs) |-> IF ks[x] = key THEN v ELSE vs[x]]]
    ELSE [ks |-> Append(ks, key), vs |-> Append(vs, v)]

\* After a member's value r: a comma and the next member, or the end.
MemberEnd(s, r, k, o) ==
  IF k > Len(s) THEN PFail
  ELSE IF s[k] = "," THEN ParseMembers(s, k + 1, o.ks, o.vs)
  ELSE IF s[k] = "}" THEN POk(Obj(o.ks, o.vs), k + 1)
  ELSE PFail

MemberValue(s, key, r, ks, vs) ==
  IF ~r.ok THEN PFail
  ELSE MemberEnd(s, r, ScanWhile(s, r.i, JsonWs), ObjSet(ks, vs, key.v.s, r.v))

MemberColon(s, key, c, ks, vs) ==
  IF c > Len(s) \/ s[c] # ":" THEN PFail
  ELSE MemberValue(s, key, ParseValue(s, c + 1), ks, vs)

MemberKey(s, key, ks, vs) ==
  IF ~key.ok THEN PFail
  ELSE MemberColon(s, key, ScanWhile(s, key.i, JsonWs), ks, vs)

MemberAt(s, j, ks, vs) ==
  IF j > Len(s) \/ s[j] # Quote THEN PFail
  ELSE MemberKey(s, ParseStr(s, j + 1, <<>>), ks, vs)

\* The members of an object from position i on.
ParseMembers(s, i, ks, vs) == MemberAt(s, ScanWhile(s, i, JsonWs), ks, vs)

ParseEnd(s, r) ==
  IF r.ok /\ ScanWhile(s, r.i, JsonWs) > Len(s)
    THEN [ok |-> TRUE, v |-> r.v]
    ELSE [ok |-> FALSE, v |-> Undefined]

\* JSON.parse(s): ok is FALSE where JSON.parse throws a SyntaxError.
JSONParse(s) == ParseEnd(s, ParseValue(s, 1))

(***************************************************************************)
(* String(v) and Number(v)                                                 *)
(***************************************************************************)
RECURSIVE NatToStr(_)
\* The decimal digits of a natural number.
NatToStr(x) ==
  IF x < 10 THEN <<DigitChar(x)>>
  ELSE Append(NatToStr(x \div 10), DigitChar(x % 10))

RECURSIVE PadZeros(_, _)
\* s left-padded with zeros to w characters.
PadZeros(s, w) == IF Len(s) >= w THEN s ELSE PadZeros(<<"0">> \o s, w)

\* String(x) of the number n * 10^(-e) (within the range JavaScript prints
\* without an exponent).
NumToStr(n, e) ==
  LET m == IF n < 0 THEN -n ELSE n
      p == Pow10(e)
      int == NatToStr(m \div p)
      frac == IF e = 0 THEN <<>> ELSE <<".">> \o PadZeros(NatToStr(m % p), e)
  IN (IF n < 0 THEN <<"-">> ELSE <<>>) \o int \o frac

RECURSIVE ToStr(_), JoinVals(_, _)
\* String(v)
ToStr(v) ==
  CASE v.t = "string" -> v.s
    [] v.t = "number" -> NumToStr(v.n, v.e)
    [] v.t = "nan" -> <<"N", "a", "N">>
    [] v.t = "boolean" ->
         IF v.n = 1 THEN <<"t", "r", "u", "e">> ELSE <<"f", "a", "l", "s", "e">>
    [] v.t = "null" -> <<"n", "u", "l", "l">>
    [] v.t = "undefined" -> <<"u", "n", "d", "e", "f", "i", "n", "e", "d">>
    [] v.t = "array" -> JoinVals(v.a, 1)
    [] OTHER -> <<"[", "o", "b", "j", "e", "c", "t", " ", "O", "b", "j", "e", "c", "t", "]">>

\* Array.prototype.join(",") from element i on: null and undefined print empty.
JoinVals(xs, i) ==
  IF i > Len(xs) THEN <<>>
  ELSE (IF xs[i].t \in {"null", "undefined"} THEN <<>> ELSE ToStr(xs[i]))
       \o (IF i < Len(xs) THEN <<",">> ELSE <<>>)
       \o JoinVals(xs, i + 1)

\* StrDecimalLiteral on a scanned literal that must end the text:
\* digits, digits. , digits.digits or .digits, then an optional exponent.
StrNumber(x, neg, d) ==
  IF (d.i1 - d.i0) + (d.fr.f1 - d.fr.f0) = 0 THEN NaN
  ELSE IF d.ex.has /\ d.ex.x1 = d.ex.x0 THEN NaN
  ELSE IF d.ex.x1 <= Len(x) THEN NaN
  ELSE IF neg THEN Negate(d.v) ELSE d.v

TrimmedToNum(x) ==
  IF x = <<>> THEN Num(0, 0)
  ELSE IF x[1] \in {"+", "-"} THEN StrNumber(x, x[1] = "-", DecScan(x, 2))
  ELSE StrNumber(x, FALSE, DecScan(x, 1))

\* Number(s) of a string: StringToNumber on the trimmed text (decimal
\* literals; every other text is NaN).
StrToNum(s) == TrimmedToNum(Trim(s))

\* Number(v)
ToNum(v) ==
  CASE v.t = "string" -> StrToNum(v.s)
    [] v.t \in {"number", "nan"} -> v
    [] v.t = "boolean" -> Num(v.n, 0)
    [] v.t = "null" -> Num(0, 0)
    [] v.t = "undefined" -> NaN
    [] v.t = "array" -> StrToNum(ToStr(v))
    [] OTHER -> NaN

(***************************************************************************)
(* Request bodies                                                          *)
(***************************************************************************)
\* productInputSchema's keys.
RequiredStrings ==
  {"productName", "productCategory", "oneSentencePitch", "keyFeatures",
   "costOfGoods", "retailPrice", "materials", "targetAudience", "competitors"}
OptionalStrings == {"productImage", "promoPrice", "variants"}
SchemaFields == RequiredStrings \cup OptionalStrings \cup {"salesChannels"}
\* The keys of req.body the handlers read; a key that is absent holds Undefined.
Fields == SchemaFields \cup {"analysis"}

\* req.body: f the top-level keys, pd the keys of the productData object
\* (hasPD: the body has a productData object).
NoFields == [k \in Fields |-> Undefined]
Body(f, hasPD, pd) == [f |-> f, hasPD |-> hasPD, pd |-> pd]

(***************************************************************************)
(* sanitizeInput                                                           *)
(***************************************************************************)
\* The lower case of the letters the script pattern matches.
Lower(c) ==
  CASE c = "S" -> "s" [] c = "C" -> "c" [] c = "R" -> "r"
    [] c = "I" -> "i" [] c = "P" -> "p" [] c = "T" -> "t" [] OTHER -> c

LowerAll(s) == [i \in 1..Len(s) |-> Lower(s[i])]

ScriptOpen == <<"<", "s", "c", "r", "i", "p", "t">>
ScriptClose == <<"<", "/", "s", "c", "r", "i", "p", "t", ">">>
\* \w of the characters modelled.
WordChars ==
  Digits \cup
  {"_", "a", "b", "c", "d", "e", "f", "g", "h", "i", "j", "k", "l", "m", "n", "o",
   "p", "q", "r", "s", "t", "u", "v", "w", "x", "y", "z", "A", "B", "C", "D", "E",
   "F", "G", "H", "I", "J", "K", "L", "M", "N", "O", "P", "Q", "R", "S", "T", "U",
   "V", "W", "X", "Y", "Z"}

RECURSIVE StripScripts(_)
\* s.replace(/<script\b[^<]*(?:(?!<\/script>)<[^<]*)*<\/script>/gi, ''):
\* an opening <script at a word boundary matches up to the first </script>.
StripScripts(s) ==
  LET low == LowerAll(s)
      opens == {i \in 1..Len(s) :
                  /\ LitAt(low, i, ScriptOpen)
                  /\ (i + 7 > Len(s) \/ s[i + 7] \notin WordChars)
                  /\ \E j \in (i + 7)..Len(s) : LitAt(low, j, ScriptClose)}
  IN IF opens = {} THEN s
     ELSE LET i == SetMin(opens)
              j == SetMin({c \in (i + 7)..Len(s) : LitAt(low, c, ScriptClose)})
          IN SubSeq(s, 1, i - 1) \o StripScripts(SubSeq(s, j + 9, Len(s)))

RECURSIVE Sanitize(_)
\* sanitize(obj): a string loses its script elements; an object, and an
\* array too, is rebuilt as a plain object key by key; the rest is returned.
Sanitize(v) ==
  CASE v.t = "string" -> Str(StripScripts(v.s))
    [] v.t = "array" ->
         Obj([i \in 1..Len(v.a) |-> NatToStr(i - 1)],
             [i \in 1..Len(v.a) |-> Sanitize(v.a[i])])
    [] v.t = "object" -> Obj(v.k, [i \in 1..Len(v.a) |-> Sanitize(v.a[i])])
    [] OTHER -> v

\* req.body = sanitize(req.body)
sanitizeInput(b) ==
  Body([k \in Fields |-> Sanitize(b.f[k])], b.hasPD,
       [k \in Fields |-> Sanitize(b.pd[k])])

(***************************************************************************)
(* preprocessReportData                                                    *)
(***************************************************************************)
NumericFields == {"costOfGoods", "retailPrice", "promoPrice"}

\* Convert to string if it's a number (and not undefined, null or '').
NumericToString(v) ==
  IF v # Undefined /\ v # Null /\ v # Str(<<>>) THEN Str(ToStr(v)) ELSE v

\* The flatMap callback: what one channel contributes.
\* return Array.isArray(parsed) ? parsed : [channel], and [channel] on a throw
ParsedOrChannel(parsed, channel) ==
  IF parsed.ok /\ IsArray(parsed.v) THEN parsed.v.a ELSE <<channel>>

\* A variant of FlatChannel that keeps every element as it is (map, not flatMap).
FlatChannelLiteral(channel) == <<channel>>

FlatChannel(channel) ==
  IF TypeOf(channel) = "string"
    THEN ParsedOrChannel(JSONParse(channel.s), channel)
    ELSE <<channel>>

RECURSIVE FlatMapChannels(_, _)
FlatMapChannels(xs, i) ==
  IF i > Len(xs) THEN <<>>
  ELSE FlatChannel(xs[i]) \o FlatMapChannels(xs, i + 1)

RECURSIVE FilterNonEmpty(_, _)
\* .filter(Boolean) on strings
FilterNonEmpty(xs, i) ==
  IF i > Len(xs) THEN <<>>
  ELSE (IF xs[i] # <<>> THEN <<Str(xs[i])>> ELSE <<>>) \o FilterNonEmpty(xs, i + 1)

\* A variant of SplitChannels that forgets filter(Boolean).
SplitChannelsKeepEmpty(s) ==
  LET parts == Split(s, ",")
  IN Arr([i \in 1..Len(parts) |-> Str(Trim(parts[i]))])

\* s.split(',').map(s => s.trim()).filter(Boolean)
SplitChannels(s) ==
  LET parts == Split(s, ",")
  IN Arr(FilterNonEmpty([i \in 1..Len(parts) |-> Trim(parts[i])], 1))

\* Handle salesChannels parsing.
\* try { JSON.parse(s) } catch { split by comma }
ParsedOrSplit(parsed, s) == IF parsed.ok THEN parsed.v ELSE SplitChannels(s)

PreprocessChannels(v) ==
  IF v # Undefined /\ v # Null THEN
    IF IsArray(v) THEN Arr(FlatMapChannels(v.a, 1))
    ELSE IF TypeOf(v) = "string" THEN ParsedOrSplit(JSONParse(v.s), v.s)
    ELSE Arr(<<>>)
  ELSE Arr(<<>>)

\* The middleware on req.body: it reads and writes top-level keys only.
preprocessReportData(b) ==
  Body([k \in Fields |->
          IF k \in NumericFields THEN NumericToString(b.f[k])
          ELSE IF k = "salesChannels" THEN PreprocessChannels(b.f[k])
          ELSE b.f[k]],
       b.hasPD, b.pd)

(***************************************************************************)
(* POST /api/reports: the handler's reshaping of req.body                  *)
(***************************************************************************)
\* A variant of FlattenProductData in which the top-level keys win.
FlattenKeepTopLevel(b) ==
  IF b.hasPD
    THEN [k \in Fields |-> IF b.f[k] # Undefined THEN b.f[k] ELSE b.pd[k]]
    ELSE b.f

\* Object.assign(req.body, req.body.productData); delete req.body.productData
FlattenProductData(b) ==
  IF b.hasPD
    THEN [k \in Fields |-> IF b.pd[k] # Undefined THEN b.pd[k] ELSE b.f[k]]
    ELSE b.f

\* Transform salesChannels from object to array if needed (Object.values).
ObjectToArray(v) ==
  IF Truthy(v) /\ TypeOf(v) = "object" /\ ~IsArray(v) THEN Arr(v.a) ELSE v

fieldsToClean == {"materials", "variants", "targetAudience", "competitors"}
MarkerExpress == <<"A", "M", " ", "[", "e", "x", "p", "r", "e", "s", "s", "]">>
MarkerDebug == <<"D", "E", "B", "U", "G">>

\* Clean up fields that might contain console output.
CleanField(v) ==
  IF Truthy(v) /\ TypeOf(v) = "string" THEN
    LET cleanValue == Trim(Split(v.s, LF)[1])
    IN IF /\ cleanValue # <<>>
          /\ ~Includes(cleanValue, MarkerExpress)
          /\ ~Includes(cleanValue, MarkerDebug)
         THEN Str(cleanValue)
         ELSE v
  ELSE v

\* PATCH: parse salesChannels when it is (still) a string.
ParsedOrEmpty(parsed) == IF parsed.ok THEN parsed.v ELSE Arr(<<>>)

PatchChannels(v) ==
  IF TypeOf(v) = "string" THEN ParsedOrEmpty(JSONParse(v.s)) ELSE v

requiredFields ==
  {"productName", "productCategory", "oneSentencePitch", "keyFeatures",
   "materials", "variants", "targetAudience", "competitors"}

ObjectToArrayStep(f) == [f EXCEPT !["salesChannels"] = ObjectToArray(@)]
CleanStep(f) == [k \in Fields |-> IF k \in fieldsToClean THEN CleanField(f[k]) ELSE f[k]]
PatchStep(f) == [f EXCEPT !["salesChannels"] = PatchChannels(@)]
EmptyToUndefinedStep(f) ==
  [k \in Fields |-> IF k \in requiredFields /\ f[k] = Str(<<>>) THEN Undefined ELSE f[k]]
NumericStep(f) ==
  [k \in Fields |-> IF k \in NumericFields THEN NumericToString(f[k]) ELSE f[k]]

\* Lines 123-178 of the handler, in their order, on the body the middleware
\* left: the result is req.body as the Validator reads it.
ReshapeBody(b) ==
  NumericStep(EmptyToUndefinedStep(PatchStep(CleanStep(
    ObjectToArrayStep(FlattenProductData(b))))))

(***************************************************************************)
(* productInputSchema                                                      *)
(***************************************************************************)
Issue(field, idx, code) == [field |-> field, idx |-> idx, code |-> code]

\* z.string().min(1, ...)
RequiredStringIssues(k, v) ==
  IF TypeOf(v) # "string" THEN {Issue(k, 0, "invalid_type")}
  ELSE IF Len(v.s) < 1 THEN {Issue(k, 0, "too_small")}
  ELSE {}

\* z.string().optional()
OptionalStringIssues(k, v) ==
  IF v = Undefined \/ TypeOf(v) = "string" THEN {} ELSE {Issue(k, 0, "invalid_type")}

\* z.array(z.string()).min(1, ...)
ChannelsIssues(v) ==
  IF ~IsArray(v) THEN {Issue("salesChannels", 0, "invalid_type")}
  ELSE {Issue("salesChannels", i, "invalid_type") :
          i \in {j \in 1..Len(v.a) : TypeOf(v.a[j]) # "string"}}
       \cup (IF Len(v.a) < 1 THEN {Issue("salesChannels", 0, "too_small")} ELSE {})

SchemaIssues(f) ==
  UNION {RequiredStringIssues(k, f[k]) : k \in RequiredStrings}
  \cup UNION {OptionalStringIssues(k, f[k]) : k \in OptionalStrings}
  \cup ChannelsIssues(f["salesChannels"])

\* productInputSchema.safeParse(f) of an object f: data keeps the schema's
\* keys and strips the others.
safeParse(f) ==
  LET issues == SchemaIssues(f)
  IN [success |-> issues = {},
      issues |-> issues,
      data |-> [k \in Fields |-> IF k \in SchemaFields THEN f[k] ELSE Undefined]]

(***************************************************************************)
(* The inputs the checks enumerate                                         *)
(***************************************************************************)
cOnline == <<"O", "n", "l", "i", "n", "e">>
cRetail == <<"R", "e", "t", "a", "i", "l">>
cDirect == <<"D", "i", "r", "e", "c", "t">>
cMug == <<"M", "u", "g">>
cHome == <<"H", "o", "m", "e">>
cClay == <<"c", "l", "a", "y">>
cDataUri == <<"d", "a", "t", "a", ":", "i", "m", "a", "g", "e", "/", "p", "n", "g",
              ";", "b", "a", "s", "e", "6", "4", ",", "A", "A">>

RECURSIVE QuoteJoin(_, _)
QuoteJoin(xs, i) ==
  IF i > Len(xs) THEN <<>>
  ELSE <<Quote>> \o xs[i] \o <<Quote>>
       \o (IF i < Len(xs) THEN <<",">> ELSE <<>>) \o QuoteJoin(xs, i + 1)

\* JSON.stringify of an array of strings that need no escaping, as the
\* client encodes salesChannels into its FormData.
StringifyStrings(xs) == <<"[">> \o QuoteJoin(xs, 1) \o <<"]">>

\* A body that passes productInputSchema as it stands.
ValidFields ==
  [k \in Fields |->
     CASE k = "productName" -> Str(cMug)
       [] k = "productCategory" -> Str(cHome)
       [] k = "costOfGoods" -> Str(<<"5">>)
       [] k = "retailPrice" -> Str(<<"1", "2", ".", "5", "0">>)
       [] k = "salesChannels" -> Arr(<<Str(cOnline), Str(cRetail)>>)
       [] k \in OptionalStrings \cup {"analysis"} -> Undefined
       [] OTHER -> Str(cClay)]

\* salesChannels as one string.
ChannelStrings ==
  {<<>>, <<" ">>, cOnline,
   cOnline \o <<",", " ">> \o cRetail \o <<" ", ",", " ">>,
   <<",">>, <<" ", ",", cOnline>>,
   StringifyStrings(<<cOnline, cRetail>>),
   StringifyStrings(<<cOnline>>),
   <<"[", "]">>, <<"[", "1", "]">>, <<"[", Quote, "a", Quote>>,
   <<" ", "[", Quote, "a", Quote, ",", " ", Quote, "b", Quote, "]", LF>>,
   <<"5">>, <<"1", ",", "2">>, <<Quote>> \o cOnline \o <<Quote>>,
   <<"n", "u", "l", "l">>, <<"t", "r", "u", "e">>,
   <<"{", Quote, "a", Quote, ":", Quote, "x", Quote, "}">>, <<"{", "}">>}

\* salesChannels as an array.
ChannelArrays ==
  {<<>>, <<Str(cOnline)>>, <<Str(cOnline), Str(cRetail)>>,
   <<Str(cRetail), Str(cOnline)>>,
   <<Str(cOnline), Str(StringifyStrings(<<cRetail, cDirect>>))>>,
   <<Str(StringifyStrings(<<cRetail, cDirect>>)), Str(cOnline)>>,
   <<Str(StringifyStrings(<<cOnline, cRetail>>))>>,
   <<Str(<<"[", "]">>)>>, <<Str(<<"5">>)>>, <<Str(<<>>)>>,
   <<Str(<<"[", "[", Quote, "a", Quote, "]", "]">>)>>,
   <<Str(<<Quote>> \o cOnline \o <<Quote>>)>>,
   <<Str(<<"a", ",", "b">>)>>, <<Str(<<"[", "1", "]">>)>>,
   <<Num(5, 0)>>, <<Null, Str(cOnline)>>, <<Arr(<<Str(cOnline)>>)>>}

ChannelSamples ==
  {Undefined, Null, Num(5, 0), Num(0, 0), Bool(TRUE),
   Obj(<<<<"0">>, <<"1">>>>, <<Str(cOnline), Str(cRetail)>>), Obj(<<>>, <<>>)}
  \cup {Str(s) : s \in ChannelStrings} \cup {Arr(a) : a \in ChannelArrays}

\* Free text.
TextSamples ==
  {Undefined, Null, Num(5, 0), Str(<<>>), Str(<<" ">>), Str(cClay),
   Str(<<" ">> \o cClay \o <<" ">>),
   Str(cClay \o <<LF>> \o cMug),
   Str(cClay \o <<" ">> \o MarkerDebug \o <<LF>> \o cMug),
   Str(cClay \o <<LF>> \o MarkerDebug),
   Str(<<"9", " ">> \o MarkerExpress \o <<LF>> \o cMug),
   Str(<<LF>> \o cClay),
   Str(cClay \o ScriptOpen \o <<">", "x">> \o ScriptClose)}

\* Prices.
PriceSamples ==
  {Undefined, Null, Str(<<>>), Str(<<" ">>), Str(<<"0">>), Str(<<"5">>),
   Str(<<"1", "2", ".", "5", "0">>), Str(<<"-", "5">>), Str(<<"a", "b", "c">>),
   Num(0, 0), Num(125, 1), Num(-5, 0), Num(7, 0)}

ImageSamples == {Undefined, Str(<<>>), Str(cDataUri), Null}

AnalysisGood == <<"{", Quote, "a", Quote, ":", "1", "}">>
AnalysisBad == <<"{", "a">>
AnalysisSamples ==
  {Undefined, Str(AnalysisGood), Str(AnalysisBad),
   Obj(<<<<"a">>>>, <<Num(1, 0)>>), Arr(<<Str(AnalysisGood)>>)}

\* The values each key is varied over.
SamplesOf(k) ==
  CASE k = "salesChannels" -> ChannelSamples
    [] k \in NumericFields -> PriceSamples
    [] k = "productImage" -> ImageSamples
    [] k = "analysis" -> AnalysisSamples
    [] OTHER -> TextSamples

\* The keys that are varied: one of each kind the code treats differently.
VariedKeys ==
  {"productName", "materials", "variants", "costOfGoods", "promoPrice",
   "productImage", "salesChannels", "analysis"}

RECURSIVE StringLeaved(_)
\* What a multipart body can carry: text, repeated fields, bracketed keys.
StringLeaved(v) ==
  CASE v.t \in {"undefined", "string"} -> TRUE
    [] v.t \in {"array", "object"} -> \A i \in 1..Len(v.a) : StringLeaved(v.a[i])
    [] OTHER -> FALSE

\* The bodies: a valid body with one key varied, sent at the top level or
\* inside a productData envelope.
VariedFields ==
  UNION {{[ValidFields EXCEPT ![k] = v] : v \in SamplesOf(k)} : k \in VariedKeys}

\* A request to a POST route: its content type, its body and, for multipart,
\* the attached file (name <<>> and hasFile FALSE: none).
Request(ctype, body, hasFile, fileName) ==
  [ctype |-> ctype, body |-> body, hasFile |-> hasFile, fileName |-> fileName]

\* Whether the content type can carry the body.
Carries(ctype, f) == ctype = "json" \/ \A k \in Fields : StringLeaved(f[k])

NormRequests ==
  {Request(c, Body(f, FALSE, NoFields), FALSE, <<>>) :
     c \in {"json", "multipart"}, f \in VariedFields}
  \cup {Request(c, Body(NoFields, TRUE, f), FALSE, <<>>) :
          c \in {"json", "multipart"}, f \in VariedFields}

\* express.json() and sanitizeInput act on a JSON body; a multipart body is
\* read by multer in the route, after sanitizeInput ran on an empty body.
ParsedBody(req) == IF req.ctype = "json" THEN sanitizeInput(req.body) ELSE req.body

(***************************************************************************)
(* The storage adapter (server/storage.ts)                                 *)
(***************************************************************************)
\* [a-zA-Z0-9.-]: the characters a cleaned file name keeps.
NameChars == (WordChars \ {"_"}) \cup {".", "-"}

\* .replace(/[^a-zA-Z0-9.-]/g, '_')
ReplaceInvalid(s) == [i \in 1..Len(s) |-> IF s[i] \in NameChars THEN s[i] ELSE "_"]

RECURSIVE CollapseUnderscores(_)
\* .replace(/_{2,}/g, '_')
CollapseUnderscores(s) ==
  IF Len(s) < 2 THEN s
  ELSE IF s[1] = "_" /\ s[2] = "_" THEN CollapseUnderscores(Tail(s))
  ELSE <<s[1]>> \o CollapseUnderscores(Tail(s))

DropLeadingUnderscore(s) == IF s # <<>> /\ s[1] = "_" THEN Tail(s) ELSE s
DropTrailingUnderscore(s) ==
  IF s # <<>> /\ s[Len(s)] = "_" THEN SubSeq(s, 1, Len(s) - 1) ELSE s
\* .replace(/^_|_$/g, '')
StripEdgeUnderscores(s) == DropTrailingUnderscore(DropLeadingUnderscore(s))

\* uploadReportImage's cleanedName (no fallback for an empty result).
cleanedName(originalname) ==
  StripEdgeUnderscores(CollapseUnderscores(ReplaceInvalid(originalname)))

\* `${Date.now()}-${cleanedName}`
ObjectKey(ts, originalname) == NatToStr(ts) \o <<"-">> \o cleanedName(originalname)

\* The public URL of an object of the bucket.
PublicUrlPrefix == <<"h", "t", "t", "p", "s", ":", "/", "/", "s", "/">>
getPublicUrl(path) == Str(PublicUrlPrefix \o path)

UploadResult(ok, key) ==
  [ok |-> ok, key |-> key, url |-> IF ok THEN getPublicUrl(key) ELSE Undefined]

\* uploadReportImage(file) at time ts, bucket the keys the bucket holds:
\* with upsert false the backend refuses a key it already holds; backendOk
\* is whether the backend is otherwise able to store the object.  A failure
\* throws (ok FALSE).
uploadReportImage(originalname, ts, bucket, backendOk) ==
  UploadResult(backendOk /\ ObjectKey(ts, originalname) \notin bucket,
               ObjectKey(ts, originalname))

\* The columns of the reports table that createReport sends.
Columns ==
  {"product_name", "product_category", "product_image", "one_sentence_pitch",
   "key_features", "cost_of_goods", "retail_price", "promo_price", "materials",
   "variants", "target_audience", "competitors", "sales_channels", "analysis"}

\* The report key each column is read from.
FieldOf(c) ==
  CASE c = "product_name" -> "productName"
    [] c = "product_category" -> "productCategory"
    [] c = "product_image" -> "productImage"
    [] c = "one_sentence_pitch" -> "oneSentencePitch"
    [] c = "key_features" -> "keyFeatures"
    [] c = "cost_of_goods" -> "costOfGoods"
    [] c = "retail_price" -> "retailPrice"
    [] c = "promo_price" -> "promoPrice"
    [] c = "materials" -> "materials"
    [] c = "variants" -> "variants"
    [] c = "target_audience" -> "targetAudience"
    [] c = "competitors" -> "competitors"
    [] c = "sales_channels" -> "salesChannels"
    [] c = "analysis" -> "analysis"

RECURSIVE ReplaceChar(_, _, _)
\* s.replace(/c/g, rep)
ReplaceChar(s, c, rep) ==
  IF s = <<>> THEN <<>>
  ELSE (IF s[1] = c THEN rep ELSE <<s[1]>>) \o ReplaceChar(Tail(s), c, rep)

\* The replacement '\"' of toPostgresArray: in a JavaScript string literal
\* the escape \" is the one character ".
QuoteReplacement == <<Quote>>

RECURSIVE JoinQuoted(_, _)
\* arr.map(s => '"' + s.replace(/"/g, '\"') + '"').join(',')
JoinQuoted(arr, i) ==
  IF i > Len(arr) THEN <<>>
  ELSE <<Quote>> \o ReplaceChar(arr[i].s, Quote, QuoteReplacement) \o <<Quote>>
       \o (IF i < Len(arr) THEN <<",">> ELSE <<>>) \o JoinQuoted(arr, i + 1)

toPostgresArray(arr) == Str(<<"{">> \o JoinQuoted(arr, 1) \o <<"}">>)

\* A variant of cleanPayload that leaves an undefined value as it is.
CleanValueKeepUndefined(key, value) ==
  IF key = "sales_channels" THEN
    IF IsArray(value) THEN toPostgresArray(value.a)
    ELSE IF TypeOf(value) = "string" /\ Len(value.s) > 0 THEN toPostgresArray(<<value>>)
    ELSE toPostgresArray(<<>>)
  ELSE value

\* cleanPayload on one key.
CleanValue(key, value) ==
  IF key = "sales_channels" THEN
    IF IsArray(value) THEN toPostgresArray(value.a)
    ELSE IF TypeOf(value) = "string" /\ Len(value.s) > 0 THEN toPostgresArray(<<value>>)
    ELSE toPostgresArray(<<>>)
  ELSE IF value = Undefined THEN Null
  ELSE value

cleanPayload(obj) == [c \in Columns |-> CleanValue(c, obj[c])]

\* The snake_case object createReport builds from a report.
SnakeCase(report) == [c \in Columns |-> report[FieldOf(c)]]

\* s.replace is not a function: toPostgresArray throws on a member that is
\* not a string.
PayloadThrows(report) ==
  /\ IsArray(report["salesChannels"])
  /\ \E i \in 1..Len(report["salesChannels"].a) :
       TypeOf(report["salesChannels"].a[i]) # "string"

\* A value a decimal column takes.
DecimalValue(v) ==
  \/ v = Null
  \/ v.t = "number"
  \/ v.t = "string" /\ Trim(v.s) # <<>> /\ StrToNum(v.s).t = "number"

\* The reports table: product_name and product_category are not null,
\* the prices are decimal.
DbAccepts(payload) ==
  /\ payload["product_name"] # Null
  /\ payload["product_category"] # Null
  /\ \A c \in {"cost_of_goods", "retail_price", "promo_price"} : DecimalValue(payload[c])

\* A row of the reports table.
Row(id, createdAt, cols) == [id |-> id, created_at |-> createdAt, cols |-> cols]
NoRow == Row(0, 0, [c \in Columns |-> Null])

CreateResult(ok, row) == [ok |-> ok, row |-> IF ok THEN row ELSE NoRow]

\* createReport(report): one POST to the reports endpoint with
\* Prefer: return=representation.  The backend answers ok with the row it
\* inserted (id from the serial, created_at from its clock), or not ok with
\* nothing inserted; every failure throws (ok FALSE).
createReport(report, id, ts, backendOk) ==
  CreateResult(~PayloadThrows(report) /\ backendOk
                 /\ DbAccepts(cleanPayload(SnakeCase(report))),
               Row(id, ts, cleanPayload(SnakeCase(report))))

\* transformReportFields: the camelCase report of a row.
transformReportFields(row) ==
  [id |-> row.id, createdAt |-> row.created_at,
   f |-> [k \in Fields |-> row.cols[CHOOSE c \in Columns : FieldOf(c) = k]]]

\* The rows in each order a query can return them.
Listings(rows) ==
  {s \in [1..Cardinality(rows) -> rows] : \A i, j \in DOMAIN s : i # j => s[i] # s[j]}

\* A variant of OrderedByCreatedDesc: order=created_at.asc
OrderedByCreatedAsc(s) ==
  \A i \in 1..(Len(s) - 1) : s[i].created_at <= s[i + 1].created_at

\* ?order=created_at.desc: the backend returns rows of equal created_at in
\* any order.
OrderedByCreatedDesc(s) ==
  \A i \in 1..(Len(s) - 1) : s[i].created_at >= s[i + 1].created_at

\* getReports(): what the query may return, each row transformed.
getReports(rows) ==
  {[i \in DOMAIN s |-> transformReportFields(s[i])] :
     s \in {t \in Listings(rows) : OrderedByCreatedDesc(t)}}

\* getReport(id): the row with that id, if any.
RowsWithId(rows, id) == {r \in rows : r.id = id}

\* A variant of RowsWithoutId that deletes with id=gte.id.
RowsBelowId(rows, id) == {r \in rows : r.id < id}

\* deleteReport(id): DELETE ?id=eq.id
RowsWithoutId(rows, id) == {r \in rows : r.id # id}

\* parseInt(s): leading whitespace, a sign, then decimal digits; the rest is
\* ignored; NaN without a digit.
ParseIntDigits(s, neg, i) ==
  IF ScanWhile(s, i, Digits) = i THEN NaN
  ELSE Num((IF neg THEN -1 ELSE 1) * DigitsVal(s, i, ScanWhile(s, i, Digits)), 0)

ParseIntTrimmed(s) ==
  IF s # <<>> /\ s[1] \in {"+", "-"} THEN ParseIntDigits(s, s[1] = "-", 2)
  ELSE ParseIntDigits(s, FALSE, 1)

parseInt(s) == ParseIntTrimmed(Trim(s))

(***************************************************************************)
(* The AI functions                                                        *)
(***************************************************************************)
\* o[key] of a parsed JSON value that is not null or undefined.
Get(o, key) ==
  IF o.t = "object" /\ (\E x \in 1..Len(o.k) : o.k[x] = key)
    THEN o.a[CHOOSE x \in 1..Len(o.k) : o.k[x] = key]
    ELSE Undefined
\* o[key] = v on an object.
Put(o, key, v) == Obj(ObjSet(o.k, o.a, key, v).ks, ObjSet(o.k, o.a, key, v).vs)

\* The result of an AI function: returned (ok) with v after `asked`
\* completion calls, or threw.
Returns(v, asked) == [ok |-> TRUE, v |-> v, asked |-> asked]
Throws(asked) == [ok |-> FALSE, v |-> Undefined, asked |-> asked]

\* response.choices[0].message.content || "{}"
ContentOrEmptyObject(reply) ==
  IF Truthy(reply.content) THEN reply.content.s ELSE <<"{", "}">>

\* JSON.parse inside the function's try: a SyntaxError is rethrown.
ParsedOrThrow(parsed, asked) ==
  IF parsed.ok THEN Returns(parsed.v, asked) ELSE Throws(asked)

\* A variant of generateProductAnalysis that calls the upstream once more
\* after an error.
generateProductAnalysisRetrying(upstream) ==
  IF upstream[1].err
    THEN (IF upstream[2].err THEN Throws(2)
          ELSE ParsedOrThrow(JSONParse(ContentOrEmptyObject(upstream[2])), 2))
    ELSE ParsedOrThrow(JSONParse(ContentOrEmptyObject(upstream[1])), 1)

\* generateProductAnalysis: one completion call, its content parsed;
\* upstream is what the upstream gives to the first call and to a later one.
generateProductAnalysis(upstream) ==
  IF upstream[1].err THEN Throws(1)
  ELSE ParsedOrThrow(JSONParse(ContentOrEmptyObject(upstream[1])), 1)

\* analyzeProductImage: one completion call, its content or "".
analyzeProductImage(reply) ==
  IF reply.err THEN Throws(1)
  ELSE Returns(IF Truthy(reply.content) THEN reply.content ELSE Str(<<>>), 1)

cPositioning == <<"p", "o", "s", "i", "t", "i", "o", "n", "i", "n", "g">>
cVisualIdentity == <<"v", "i", "s", "u", "a", "l", "I", "d", "e", "n", "t", "i", "t", "y">>
cImageAnalysis == <<"i", "m", "a", "g", "e", "A", "n", "a", "l", "y", "s", "i", "s">>

\* analysis.positioning.visualIdentity, where reading it does not throw.
VisualIdentity(analysis) == Get(Get(analysis, cPositioning), cVisualIdentity)
\* (analysis.positioning.visualIdentity as any).imageAnalysis = imageAnalysis
\* throws a TypeError unless visualIdentity is an object; the handler's catch
\* leaves the analysis as it was.
Enhanced(analysis, imageAnalysis) ==
  IF VisualIdentity(analysis).t = "object"
    THEN Put(analysis, cPositioning,
             Put(Get(analysis, cPositioning), cVisualIdentity,
                 Put(VisualIdentity(analysis), cImageAnalysis, imageAnalysis)))
    ELSE analysis

cMessage == <<"m", "e", "s", "s", "a", "g", "e">>
cRelatedReports == <<"r", "e", "l", "a", "t", "e", "d", "R", "e", "p", "o", "r", "t", "s">>
ChatDefaultMessage == Str(<<"I", "'", "m", " ", "s", "o", "r", "r", "y", ",", " ", "I", " ", "c", "o", "u",
    "l", "d", "n", "'", "t", " ", "p", "r", "o", "c", "e", "s", "s", " ", "t", "h",
    "a", "t", " ", "r", "e", "q", "u", "e", "s", "t", ".">>)
ChatFallbackMessage == Str(<<"I", "'", "m", " ", "s", "o", "r", "r", "y", ",", " ", "I", " ", "e", "n", "c",
    "o", "u", "n", "t", "e", "r", "e", "d", " ", "a", "n", " ", "e", "r", "r", "o",
    "r", " ", "p", "r", "o", "c", "e", "s", "s", "i", "n", "g", " ", "y", "o", "u",
    "r", " ", "r", "e", "q", "u", "e", "s", "t", ".", " ", "P", "l", "e", "a", "s",
    "e", " ", "t", "r", "y", " ", "a", "g", "a", "i", "n", ".">>)
ChatResponse(message, relatedReports) ==
  Obj(<<cMessage, cRelatedReports>>, <<message, relatedReports>>)

\* return { message: result.message || "...", relatedReports: result.relatedReports || [] }
\* result.message throws a TypeError when result is null.
ChatResult(parsed) ==
  IF ~parsed.ok \/ parsed.v = Null
    THEN ChatResponse(ChatFallbackMessage, Arr(<<>>))
    ELSE ChatResponse(
           IF Truthy(Get(parsed.v, cMessage)) THEN Get(parsed.v, cMessage)
           ELSE ChatDefaultMessage,
           IF Truthy(Get(parsed.v, cRelatedReports)) THEN Get(parsed.v, cRelatedReports)
           ELSE Arr(<<>>))

\* A variant of chatWithDatabase whose parse failure reaches the caller.
chatWithDatabaseThrowing(reply) ==
  IF reply.err \/ ~JSONParse(ContentOrEmptyObject(reply)).ok THEN Throws(1)
  ELSE Returns(ChatResult(JSONParse(ContentOrEmptyObject(reply))), 1)

\* chatWithDatabase: the completion call is outside the try, the parse inside.
chatWithDatabase(reply) ==
  IF reply.err THEN Throws(1)
  ELSE Returns(ChatResult(JSONParse(ContentOrEmptyObject(reply))), 1)

(***************************************************************************)
(* The route handlers, as functions of the request and of what the         *)
(* backends answer                                                         *)
(***************************************************************************)
\* One call of a handler to the Persistence Adapter or to the AI Gateway:
\* its name, whether it returned (ok) or threw, and what it returned; list
\* of an Outcome is the array of reports a list answer carries, doc the
\* document an analyze or chat answer carries.
Call(op, ok, val) == [op |-> op, ok |-> ok, val |-> val]

\* How a request ended: the step that answered, the status, the message (or
\* the kind of document) of the answer, the Validator's issues, the calls
\* issued in order, and the row created.
Outcome(stage, status, kind, issues, calls, row) ==
  [stage |-> stage, status |-> status, kind |-> kind, issues |-> issues,
   calls |-> calls, row |-> row, list |-> <<>>, doc |-> Undefined]

\* analysisRaw: the first element when the field is an array.
AnalysisRaw(a) ==
  IF IsArray(a) THEN (IF Len(a.a) > 0 THEN a.a[1] ELSE Undefined) ELSE a

ParseAnalysisRaw(raw) ==
  IF TypeOf(raw) = "string" THEN JSONParse(raw.s)
  ELSE IF TypeOf(raw) = "object" THEN [ok |-> TRUE, v |-> raw]
  ELSE [ok |-> FALSE, v |-> Undefined]

\* 2. Parse the analysis JSON string from req.body (ok FALSE: the 400 branch).
ParseAnalysis(a) ==
  IF Truthy(a) THEN ParseAnalysisRaw(AnalysisRaw(a)) ELSE [ok |-> TRUE, v |-> Null]

\* Number(x) || null
NumberOrNull(v) == IF Truthy(ToNum(v)) THEN ToNum(v) ELSE Null

\* A variant of reportToCreate that keeps the body's productImage.
reportToCreateBodyImage(data, imageUrl, parsedAnalysis) ==
  [k \in Fields |->
     CASE k = "analysis" -> parsedAnalysis
       [] k \in NumericFields -> NumberOrNull(data[k])
       [] OTHER -> data[k]]

\* 4. Prepare the new report object for insertion.
reportToCreate(data, imageUrl, parsedAnalysis) ==
  [k \in Fields |->
     CASE k = "productImage" -> (IF Truthy(imageUrl) THEN imageUrl ELSE Null)
       [] k = "analysis" -> parsedAnalysis
       [] k \in NumericFields -> NumberOrNull(data[k])
       [] OTHER -> data[k]]

\* What the handler of POST /api/reports reads: req.body after the
\* middleware and the reshaping, the Validator's verdict on it, and the
\* parsed analysis.
PreparedOf(f) ==
  [fields |-> f, result |-> safeParse(f), analysis |-> ParseAnalysis(f["analysis"])]

PrepareSave(r) == PreparedOf(ReshapeBody(preprocessReportData(ParsedBody(r))))

\* 5. Insert the new record.
SaveCreated(c, calls) ==
  IF c.ok
    THEN Outcome("create", 201, "report", {}, Append(calls, Call("create", TRUE, Null)), c.row)
    ELSE Outcome("create", 500, "Failed to save report", {},
                 Append(calls, Call("create", FALSE, Null)), NoRow)

\* A variant of SaveAfterUpload whose validation answer carries no issues.
SaveAfterUploadNoIssues(p, imageUrl, calls, id, ts, dbOk) ==
  IF ~p.analysis.ok
    THEN Outcome("analysis", 400, "Invalid analysis JSON", {}, calls, NoRow)
  ELSE IF ~p.result.success
    THEN Outcome("validate", 400, "Invalid input data", {}, calls, NoRow)
  ELSE SaveCreated(createReport(reportToCreate(p.result.data, imageUrl, p.analysis.v),
                                id, ts, dbOk),
                   calls)

\* 2. to 5.: analysis parse, validation, insertion.
SaveAfterUpload(p, imageUrl, calls, id, ts, dbOk) ==
  IF ~p.analysis.ok
    THEN Outcome("analysis", 400, "Invalid analysis JSON", {}, calls, NoRow)
  ELSE IF ~p.result.success
    THEN Outcome("validate", 400, "Invalid input data", p.result.issues, calls, NoRow)
  ELSE SaveCreated(createReport(reportToCreate(p.result.data, imageUrl, p.analysis.v),
                                id, ts, dbOk),
                   calls)

\* A variant of SaveUnified that goes on without an image when the upload fails.
SaveIgnoreUploadFailure(hasFile, p, up, id, ts, dbOk) ==
  IF hasFile
    THEN SaveAfterUpload(p, up.url, <<Call("uploadImage", up.ok, up.url)>>, id, ts, dbOk)
    ELSE SaveAfterUpload(p, Undefined, <<>>, id, ts, dbOk)

\* The handler of POST /api/reports (unified route) from step 1 on: p what
\* it reads of the body, up the result of uploadReportImage if a file is
\* attached.
SaveUnified(hasFile, p, up, id, ts, dbOk) ==
  IF hasFile THEN
    IF up.ok
      THEN SaveAfterUpload(p, up.url, <<Call("uploadImage", TRUE, up.url)>>, id, ts, dbOk)
      ELSE Outcome("upload", 500, "Image upload failed", {},
                   <<Call("uploadImage", FALSE, Undefined)>>, NoRow)
  ELSE SaveAfterUpload(p, Undefined, <<>>, id, ts, dbOk)

\* The body a route without multer reads: a multipart body is not parsed.
JsonBody(r) ==
  IF r.ctype = "json" THEN sanitizeInput(r.body) ELSE Body(NoFields, FALSE, NoFields)

\* safeParse of a value that may be undefined (one issue at the root).
safeParseValue(present, f) ==
  IF present THEN safeParse(f)
  ELSE [success |-> FALSE, issues |-> {Issue("", 0, "invalid_type")}, data |-> NoFields]

\* const { productData, analysis } = req.body, and the Validator's verdict.
PreparedJsonOf(b) ==
  [fields |-> b.pd, result |-> safeParseValue(b.hasPD, b.pd),
   analysis |-> [ok |-> TRUE, v |-> b.f["analysis"]]]

PrepareSaveJson(r) == PreparedJsonOf(JsonBody(r))

\* reportDataForDb of the JSON save route.
reportDataForDb(data, analysis) ==
  [k \in Fields |->
     CASE k = "analysis" -> analysis
       [] k = "salesChannels" ->
            (IF IsArray(data[k]) THEN Str(JoinVals(data[k].a, 1)) ELSE data[k])
       [] OTHER -> data[k]]

SaveJsonCreated(c) ==
  IF c.ok
    THEN Outcome("create", 201, "report", {}, <<Call("create", TRUE, Null)>>, c.row)
    ELSE Outcome("create", 500, "Failed to save report", {},
                 <<Call("create", FALSE, Null)>>, NoRow)

\* The handler of POST /api/reports of the JSON routes.
SaveJson(p, id, ts, dbOk) ==
  IF ~p.result.success
    THEN Outcome("validate", 400, "Invalid product data", p.result.issues, <<>>, NoRow)
    ELSE SaveJsonCreated(createReport(reportDataForDb(p.result.data, p.analysis.v),
                                      id, ts, dbOk))

\* POST /api/analyze (unified routes): what it reads of the body.
PrepareAnalyze(r) == PreparedOf(ObjectToArrayStep(JsonBody(r).f))
\* POST /api/analyze (JSON routes).
PrepareAnalyzeJson(r) == PreparedOf(JsonBody(r).f)

DataImagePrefix == <<"d", "a", "t", "a", ":", "i", "m", "a", "g", "e", "/">>

\* validatedData.productImage && validatedData.productImage.startsWith('data:image/')
HasDataImage(data) ==
  Truthy(data["productImage"]) /\ StartsWith(data["productImage"].s, DataImagePrefix)

\* The calls of the handler; each carries the number of completion calls the
\* function issued.
AnalyzeText(text) == <<Call("generateProductAnalysis", text.ok, Num(text.asked, 0))>>
AnalyzeTextAndImage(text, image) ==
  <<Call("generateProductAnalysis", text.ok, Num(text.asked, 0)),
    Call("analyzeProductImage", image.ok, Num(image.asked, 0))>>

\* res.json(analysis)
Analyzed(calls, analysis) ==
  [Outcome("analyze", 200, "analysis", {}, calls, NoRow) EXCEPT !.doc = analysis]

\* A variant of Analyze in which a failed image analysis fails the request.
AnalyzeImageRequired(p, withImage, text, image) ==
  IF ~p.result.success
    THEN Outcome("validate", 400, "Invalid input data", p.result.issues, <<>>, NoRow)
  ELSE IF ~text.ok
    THEN Outcome("analyze", 500, "Failed to generate analysis", {}, AnalyzeText(text), NoRow)
  ELSE IF withImage /\ HasDataImage(p.result.data)
    THEN (IF image.ok
            THEN Analyzed(AnalyzeTextAndImage(text, image), Enhanced(text.v, image.v))
            ELSE Outcome("analyze", 500, "Failed to generate analysis", {},
                         AnalyzeTextAndImage(text, image), NoRow))
  ELSE Analyzed(AnalyzeText(text), text.v)

\* The handler of POST /api/analyze; withImage: the route analyzes a data
\* URI image (the unified routes do, the JSON routes do not); text and image
\* are what generateProductAnalysis and analyzeProductImage give.
Analyze(p, withImage, text, image) ==
  IF ~p.result.success
    THEN Outcome("validate", 400, "Invalid input data", p.result.issues, <<>>, NoRow)
  ELSE IF ~text.ok
    THEN Outcome("analyze", 500, "Failed to generate analysis", {}, AnalyzeText(text), NoRow)
  ELSE IF withImage /\ HasDataImage(p.result.data)
    THEN Analyzed(AnalyzeTextAndImage(text, image),
                  IF image.ok THEN Enhanced(text.v, image.v) ELSE text.v)
  ELSE Analyzed(AnalyzeText(text), text.v)

\* GET /api/reports
ListReports(listing, dbOk) ==
  IF dbOk
    THEN [Outcome("list", 200, "reports", {}, <<Call("getReports", TRUE, Null)>>, NoRow)
            EXCEPT !.list = listing]
  ELSE Outcome("list", 500, "Failed to fetch reports", {},
               <<Call("getReports", FALSE, Null)>>, NoRow)

\* A variant of GetFound in which a missing row is an exception.
GetFoundOrThrow(found) ==
  IF found = {}
    THEN Outcome("get", 500, "Failed to fetch report", {},
                 <<Call("getReport", FALSE, Null)>>, NoRow)
    ELSE Outcome("get", 200, "report", {}, <<Call("getReport", TRUE, Null)>>,
                 CHOOSE r \in found : TRUE)

GetFound(found) ==
  IF found = {}
    THEN Outcome("get", 404, "Report not found", {}, <<Call("getReport", TRUE, Null)>>, NoRow)
    ELSE Outcome("get", 200, "report", {}, <<Call("getReport", TRUE, Null)>>,
                 CHOOSE r \in found : TRUE)

\* GET /api/reports/:id
GetReport(id, rows, dbOk) ==
  IF id.t = "nan" THEN Outcome("param", 400, "Invalid report ID", {}, <<>>, NoRow)
  ELSE IF ~dbOk
    THEN Outcome("get", 500, "Failed to fetch report", {},
                 <<Call("getReport", FALSE, Null)>>, NoRow)
  ELSE GetFound(RowsWithId(rows, id.n))

\* A variant of DeleteReport that answers without calling deleteReport.
DeleteReportAnswerOnly(id, dbOk, okStatus) ==
  IF id.t = "nan" THEN Outcome("param", 400, "Invalid report ID", {}, <<>>, NoRow)
  ELSE Outcome("delete", okStatus, "deleted", {}, <<>>, NoRow)

\* DELETE /api/reports/:id; okStatus: 204 (unified routes) or 200 (JSON routes).
DeleteReport(id, dbOk, okStatus) ==
  IF id.t = "nan" THEN Outcome("param", 400, "Invalid report ID", {}, <<>>, NoRow)
  ELSE IF ~dbOk
    THEN Outcome("delete", 500, "Failed to delete report", {},
                 <<Call("deleteReport", FALSE, Null)>>, NoRow)
  ELSE Outcome("delete", okStatus, "deleted", {}, <<Call("deleteReport", TRUE, Null)>>, NoRow)

ChatAnswered(chat) ==
  IF chat.ok
    THEN [Outcome("chat", 200, "chat", {},
                  <<Call("getReports", TRUE, Null), Call("chatWithDatabase", TRUE, Null)>>,
                  NoRow)
            EXCEPT !.doc = chat.v]
    ELSE Outcome("chat", 500, "Failed to process chat message", {},
                 <<Call("getReports", TRUE, Null), Call("chatWithDatabase", FALSE, Null)>>, NoRow)

\* POST /api/chat; chat is what chatWithDatabase gives.
Chat(message, dbOk, chat) ==
  IF ~Truthy(message) THEN Outcome("param", 400, "Message is required", {}, <<>>, NoRow)
  ELSE IF ~dbOk
    THEN Outcome("chat", 500, "Failed to process chat message", {},
                 <<Call("getReports", FALSE, Null)>>, NoRow)
  ELSE ChatAnswered(chat)

ContentGenerated(found, aiOk) ==
  IF found = {}
    THEN Outcome("content", 404, "Report not found", {}, <<Call("getReport", TRUE, Null)>>, NoRow)
  ELSE IF aiOk
    THEN Outcome("content", 200, "content ideas", {},
                 <<Call("getReport", TRUE, Null), Call("generateContentIdeas", TRUE, Null)>>,
                 CHOOSE r \in found : TRUE)
  ELSE Outcome("content", 500, "Failed to generate content ideas", {},
               <<Call("getReport", TRUE, Null), Call("generateContentIdeas", FALSE, Null)>>,
               NoRow)

\* POST /api/generate-content; checksId: the route answers 400 to an id that
\* is not a number (the JSON routes do; the unified routes query with NaN,
\* which the backend refuses).
GenerateContent(reportId, rows, checksId, dbOk, aiOk) ==
  IF ~Truthy(reportId) THEN Outcome("param", 400, "Report ID is required", {}, <<>>, NoRow)
  ELSE IF checksId /\ parseInt(ToStr(reportId)).t = "nan"
    THEN Outcome("param", 400, "Invalid report ID", {}, <<>>, NoRow)
  ELSE IF ~dbOk \/ parseInt(ToStr(reportId)).t = "nan"
    THEN Outcome("content", 500, "Failed to generate content ideas", {},
                 <<Call("getReport", FALSE, Null)>>, NoRow)
  ELSE ContentGenerated(RowsWithId(rows, parseInt(ToStr(reportId)).n), aiOk)

(***************************************************************************)
(* State                                                                   *)
(***************************************************************************)
VARIABLES
  norm,     \* one request body on its way through the normalization stages
  routes,   \* the routes module the server registered: "unified" or "json"
  reports,  \* the rows of the reports table
  objects,  \* the keys of the objects in the report-images bucket
  nextId,   \* the next value of the table's serial id
  now,      \* the clock (Date.now() and the table's created_at default)
  last,     \* the request handled last and how it ended
  proc      \* the process: its environment, how far it started, its handlers

vars == <<norm, routes, reports, objects, nextId, now, last, proc>>

\* The number of reports created and the ticks of the clock in one behaviour.
MaxReports == 2
MaxTime == 1

(***************************************************************************)
(* The requests the server is sent                                         *)
(***************************************************************************)
\* The body the client's FormData carries: salesChannels and analysis as
\* JSON text.
FormFields ==
  [ValidFields EXCEPT !["salesChannels"] = Str(StringifyStrings(<<cOnline, cRetail>>)),
                      !["analysis"] = Str(AnalysisGood)]
FormNoName == [FormFields EXCEPT !["productName"] = Undefined]
FormBadAnalysis == [FormFields EXCEPT !["analysis"] = Str(AnalysisBad)]
FormNoNameBadAnalysis == [FormNoName EXCEPT !["analysis"] = Str(AnalysisBad)]
FormDataUri == [FormFields EXCEPT !["productImage"] = Str(cDataUri)]

\* { productData, analysis } as the client's saveReport posts it.
EnvelopeTop == [NoFields EXCEPT !["analysis"] = Obj(<<<<"a">>>>, <<Num(1, 0)>>)]
JsonDataUri == [ValidFields EXCEPT !["productImage"] = Str(cDataUri)]
JsonNoName == [ValidFields EXCEPT !["productName"] = Undefined]

FileSpaced == <<"a", " ", "b">>

Form(f) == Request("multipart", Body(f, FALSE, NoFields), FALSE, <<>>)
FormWithFile(f) == Request("multipart", Body(f, FALSE, NoFields), TRUE, FileSpaced)
FormWithFileNamed(f, name) == Request("multipart", Body(f, FALSE, NoFields), TRUE, name)
Envelope(f) == Request("json", Body(EnvelopeTop, TRUE, f), FALSE, <<>>)
Json(f) == Request("json", Body(f, FALSE, NoFields), FALSE, <<>>)

\* The requests sent to POST /api/reports, numbered.
SaveRequests ==
  <<Form(FormFields), Form(FormNoName), Form(FormBadAnalysis),
    Form(FormNoNameBadAnalysis), Form(FormDataUri),
    FormWithFile(FormFields), FormWithFile(FormNoName),
    Envelope(ValidFields), Envelope(JsonDataUri), Envelope(JsonNoName),
    Json(ValidFields)>>

\* The requests sent to POST /api/analyze, numbered.
AnalyzeRequests == <<Json(ValidFields), Json(JsonDataUri), Json(JsonNoName)>>

IdParams == {NatToStr(i) : i \in 1..MaxReports} \cup {<<"x">>}
Messages == {Undefined, Str(<<"h", "i">>)}
ContentIds == {Undefined, Num(1, 0), Str(<<"x">>)}

\* What each handler reads of each request, computed once.
SaveTable == [i \in DOMAIN SaveRequests |-> PrepareSave(SaveRequests[i])]
SaveJsonTable == [i \in DOMAIN SaveRequests |-> PrepareSaveJson(SaveRequests[i])]
AnalyzeTable == [i \in DOMAIN AnalyzeRequests |-> PrepareAnalyze(AnalyzeRequests[i])]
AnalyzeJsonTable ==
  [i \in DOMAIN AnalyzeRequests |-> PrepareAnalyzeJson(AnalyzeRequests[i])]

NoRequest == Request("json", Body(NoFields, FALSE, NoFields), FALSE, <<>>)

\* What an upstream completion call gave: an error, or a message content
\* (null, or a string).
UpstreamError == [err |-> TRUE, content |-> Null]
Replied(content) == [err |-> FALSE, content |-> content]
Unasked == Replied(Undefined)

StorageOps == {"create", "getReports", "getReport", "deleteReport"}
TextOps == {"generateProductAnalysis", "chatWithDatabase", "generateContentIdeas"}

\* What the upstream gives: to the analysis call (and to a later call, if
\* one were made), to the image call, to the chat call.
ReplyDocument ==
  <<"{", Quote, "p", "o", "s", "i", "t", "i", "o", "n", "i", "n", "g", Quote, ":",
    "{", Quote, "v", "i", "s", "u", "a", "l", "I", "d", "e", "n", "t", "i", "t",
    "y", Quote, ":", "{", Quote, "a", Quote, ":", "1", "}", "}", "}">>
ReplyPlain == <<"{", Quote, "a", Quote, ":", "1", "}">>
ReplyBroken == <<"{", "a">>
ReplyNull == <<"n", "u", "l", "l">>
ReplyChat ==
  <<"{", Quote, "m", "e", "s", "s", "a", "g", "e", Quote, ":", Quote, "h", "i",
    Quote, ",", Quote, "r", "e", "l", "a", "t", "e", "d", "R", "e", "p", "o", "r",
    "t", "s", Quote, ":", "[", "1", "]", "}">>
ReplyNoMessage == <<"{", Quote, "m", "e", "s", "s", "a", "g", "e", Quote, ":", Quote, Quote, "}">>
AnalysisUpstreams ==
  <<<<UpstreamError, Replied(Str(ReplyDocument))>>,
    <<Replied(Null), Replied(Str(ReplyDocument))>>,
    <<Replied(Str(ReplyBroken)), Replied(Str(ReplyDocument))>>,
    <<Replied(Str(ReplyDocument)), Replied(Str(ReplyDocument))>>,
    <<Replied(Str(ReplyPlain)), Replied(Str(ReplyDocument))>>>>
ImageReplies == <<UpstreamError, Replied(Str(<<"x">>)), Replied(Null)>>
ChatReplies ==
  <<UpstreamError, Replied(Null), Replied(Str(ReplyBroken)), Replied(Str(ReplyNull)),
    Replied(Str(ReplyChat)), Replied(Str(ReplyNoMessage))>>

\* What each AI function gives for each of them, computed once.
AnalysisResults ==
  [i \in DOMAIN AnalysisUpstreams |-> generateProductAnalysis(AnalysisUpstreams[i])]
ImageResults == [i \in DOMAIN ImageReplies |-> analyzeProductImage(ImageReplies[i])]
ChatResults == [i \in DOMAIN ChatReplies |-> chatWithDatabase(ChatReplies[i])]
Asked(out, ops) == \E i \in 1..Len(out.calls) : out.calls[i].op \in ops

\* What the backends did during a request: whether the database answered
\* the handler's query (TRUE when it was not asked), and what the text and
\* the image completion calls gave (Unasked when not called).
Env(out, dbOk, ai, img) ==
  [db |-> Asked(out, StorageOps) => dbOk,
   ai |-> IF Asked(out, TextOps) THEN ai ELSE Unasked,
   img |-> IF Asked(out, {"analyzeProductImage"}) THEN img ELSE Unasked]

\* The record of a handled request: req is its number among the requests
\* sent to its route (0 where the body is not read), arg the id parameter,
\* the reportId or the message of the routes that read one; env what the
\* backends did.
Handled(route, req, arg, env, out) ==
  [route |-> route, req |-> req, arg |-> arg, env |-> env, out |-> out]

\* No request is in the normalization stages.
NormIdle == [stage |-> "idle"]

\* A request has arrived.
NormReceived(r) ==
  [stage |-> "received", req |-> r, body |-> r.body, fields |-> NoFields,
   result |-> safeParse(NoFields)]

\* The environment keys validateEnvironment requires.
RequiredEnvVars == {"SUPABASE_URL", "SUPABASE_ANON_KEY", "OPENAI_API_KEY"}

\* A variant of validateEnvironment that does not ask for the AI key.
validateEnvironmentStorageOnly(keys) == {"SUPABASE_URL", "SUPABASE_ANON_KEY"} \subseteq keys

\* validateEnvironment returns (TRUE) or throws (FALSE): keys are the
\* variables of process.env with a non-empty value.
validateEnvironment(keys) == RequiredEnvVars \subseteq keys

\* A handler invocation that has not started.
Idle == [pc |-> "idle", inst |-> 0]

\* The process: mode is "node" or "vercel" (SERVER_CONFIG.IS_VERCEL), keys
\* the environment keys that are set, phase how far the start got, created
\* the number of createServer calls, server the instance the serverless
\* module caches (0: none), inv the invocations of the serverless handler,
\* served the instances that were handed a request.
Process(mode, keys, phase, created, server, inv, served) ==
  [mode |-> mode, keys |-> keys, phase |-> phase, created |-> created,
   server |-> server, inv |-> inv, served |-> served]

\* The process the route handlers run in: started, listening, instance 1.
ProcessRunning == Process("node", RequiredEnvVars, "listening", 1, 1, <<>>, {})

ServerStarted ==
  /\ proc = ProcessRunning
  /\ reports = {}
  /\ objects = {}
  /\ nextId = 1
  /\ now = 0
  /\ last = Handled("none", 0, Undefined, [db |-> TRUE, ai |-> Unasked, img |-> Unasked],
                    Outcome("none", 0, "", {}, <<>>, NoRow))

(***************************************************************************)
(* The normalization pipeline of POST /api/reports, stage by stage         *)
(***************************************************************************)
InitNorm ==
  /\ \E r \in NormRequests :
       /\ Carries(r.ctype, r.body.f) /\ Carries(r.ctype, r.body.pd)
       /\ norm = NormReceived(r)
  /\ routes = "unified"
  /\ ServerStarted

NormParse ==
  /\ norm.stage = "received"
  /\ norm' = [norm EXCEPT !.stage = "parsed", !.body = ParsedBody(norm.req)]
  /\ UNCHANGED <<routes, reports, objects, nextId, now, last, proc>>

NormPreprocess ==
  /\ norm.stage = "parsed"
  /\ norm' = [norm EXCEPT !.stage = "preprocessed",
                          !.body = preprocessReportData(norm.body)]
  /\ UNCHANGED <<routes, reports, objects, nextId, now, last, proc>>

NormReshape ==
  /\ norm.stage = "preprocessed"
  /\ norm' = [norm EXCEPT !.stage = "reshaped", !.fields = ReshapeBody(norm.body)]
  /\ UNCHANGED <<routes, reports, objects, nextId, now, last, proc>>

NormValidate ==
  /\ norm.stage = "reshaped"
  /\ norm' = [norm EXCEPT !.stage = "validated", !.result = safeParse(norm.fields)]
  /\ UNCHANGED <<routes, reports, objects, nextId, now, last, proc>>

NextNorm == NormParse \/ NormPreprocess \/ NormReshape \/ NormValidate

SpecNorm == InitNorm /\ [][NextNorm]_vars

(***************************************************************************)
(* The server: one action per route, each request handled in one step      *)
(***************************************************************************)
Init ==
  /\ norm = NormIdle
  /\ routes \in {"unified", "json"}
  /\ ServerStarted

\* The call of out with that name that returned, if any.
Returned(out, op) == \E i \in 1..Len(out.calls) : out.calls[i].op = op /\ out.calls[i].ok

\* The table after a request: the backend inserted the row of a create call
\* that returned, and deleted the rows a delete call that returned names.
StoreAfter(rows, out, id) ==
  IF Returned(out, "create") THEN rows \cup {out.row}
  ELSE IF Returned(out, "deleteReport") THEN RowsWithoutId(rows, id)
  ELSE rows

\* A variant of BucketAfter that removes the object of a request that did
\* not end with a created report.
BucketAfterCompensated(bucket, hasFile, up, out) ==
  IF hasFile /\ up.ok /\ Returned(out, "create") THEN bucket \cup {up.key} ELSE bucket

\* The bucket after a save: it holds the object of an upload that returned,
\* however the request ended (the handler has no call that removes one).
BucketAfter(bucket, hasFile, up, out) ==
  IF hasFile /\ up.ok THEN bucket \cup {up.key} ELSE bucket

SaveDone(i, up, dbOk, out) ==
  /\ last' = Handled("save", i, Undefined, Env(out, dbOk, Unasked, Unasked), out)
  /\ reports' = StoreAfter(reports, out, 0)
  /\ nextId' = IF Returned(out, "create") THEN nextId + 1 ELSE nextId
  /\ objects' = BucketAfter(objects, SaveRequests[i].hasFile, up, out)
  /\ UNCHANGED <<norm, routes, now, proc>>

\* POST /api/reports, unified routes.
PostReports ==
  /\ routes = "unified"
  /\ nextId <= MaxReports
  /\ \E i \in DOMAIN SaveRequests, upOk \in BOOLEAN, dbOk \in BOOLEAN :
       \* a backend that is not called has no answer to choose
       /\ ~SaveRequests[i].hasFile => upOk
       /\ (~upOk \/ ~SaveTable[i].result.success) => dbOk
       /\ \E up \in {uploadReportImage(SaveRequests[i].fileName, now, objects, upOk)} :
            \E out \in {SaveUnified(SaveRequests[i].hasFile, SaveTable[i], up,
                                     nextId, now, dbOk)} :
              SaveDone(i, up, dbOk, out)

\* POST /api/reports, JSON routes (no multer: a file is not read).
PostReportsJson ==
  /\ routes = "json"
  /\ nextId <= MaxReports
  /\ \E i \in DOMAIN SaveRequests, dbOk \in BOOLEAN :
       /\ ~SaveJsonTable[i].result.success => dbOk
       /\ \E out \in {SaveJson(SaveJsonTable[i], nextId, now, dbOk)} :
         SaveDone(i, UploadResult(FALSE, <<>>), dbOk, out)

Answered(route, req, arg, env, out) ==
  /\ last' = Handled(route, req, arg, env, out)
  /\ reports' = StoreAfter(reports, out, IF arg.t = "string" THEN parseInt(arg.s).n ELSE 0)
  /\ UNCHANGED <<norm, routes, objects, nextId, now, proc>>

\* POST /api/analyze, unified routes.
PostAnalyze ==
  /\ routes = "unified"
  /\ \E i \in DOMAIN AnalyzeRequests, a \in DOMAIN AnalysisUpstreams,
        m \in DOMAIN ImageReplies :
       \* a call that is not made has no reply to choose
       /\ ~AnalyzeTable[i].result.success => a = 1
       /\ (~AnalysisResults[a].ok \/ ~HasDataImage(AnalyzeTable[i].fields)) => m = 1
       /\ \E out \in {Analyze(AnalyzeTable[i], TRUE, AnalysisResults[a], ImageResults[m])} :
            Answered("analyze", i, Undefined,
                     Env(out, TRUE, AnalysisUpstreams[a][1], ImageReplies[m]), out)

\* POST /api/analyze, JSON routes.
PostAnalyzeJson ==
  /\ routes = "json"
  /\ \E i \in DOMAIN AnalyzeRequests, a \in DOMAIN AnalysisUpstreams :
       /\ ~AnalyzeJsonTable[i].result.success => a = 1
       /\ \E out \in {Analyze(AnalyzeJsonTable[i], FALSE, AnalysisResults[a],
                                ImageResults[1])} :
            Answered("analyze", i, Undefined,
                     Env(out, TRUE, AnalysisUpstreams[a][1], Unasked), out)

\* GET /api/reports
GetReports ==
  \/ \E listing \in getReports(reports) :
       \E out \in {ListReports(listing, TRUE)} :
         Answered("list", 0, Undefined, Env(out, TRUE, Unasked, Unasked), out)
  \/ \E out \in {ListReports(<<>>, FALSE)} :
       Answered("list", 0, Undefined, Env(out, FALSE, Unasked, Unasked), out)

\* GET /api/reports/:id
GetReportById ==
  \E id \in IdParams, dbOk \in BOOLEAN :
    /\ parseInt(id).t = "nan" => dbOk
    /\ \E out \in {GetReport(parseInt(id), reports, dbOk)} :
      Answered("get", 0, Str(id), Env(out, dbOk, Unasked, Unasked), out)

\* DELETE /api/reports/:id
DeleteReportById ==
  \E id \in IdParams, dbOk \in BOOLEAN :
    /\ parseInt(id).t = "nan" => dbOk
    /\ \E out \in {DeleteReport(parseInt(id), dbOk, IF routes = "unified" THEN 204 ELSE 200)} :
      Answered("delete", 0, Str(id), Env(out, dbOk, Unasked, Unasked), out)

\* POST /api/chat
PostChat ==
  \E m \in Messages, dbOk \in BOOLEAN, c \in DOMAIN ChatReplies :
    /\ (~Truthy(m) \/ ~dbOk) => c = 1
    /\ ~Truthy(m) => dbOk
    /\ \E out \in {Chat(m, dbOk, ChatResults[c])} :
         Answered("chat", 0, m, Env(out, dbOk, ChatReplies[c], Unasked), out)

\* POST /api/generate-content
PostGenerateContent ==
  \E id \in ContentIds, dbOk \in BOOLEAN, aiOk \in BOOLEAN :
    /\ (~dbOk \/ ~Truthy(id)) => aiOk
    /\ ~Truthy(id) => dbOk
    /\ \E out \in {GenerateContent(id, reports, routes = "json", dbOk, aiOk)} :
         Answered("content", 0, id,
                  Env(out, dbOk, IF aiOk THEN Replied(Null) ELSE UpstreamError, Unasked), out)

\* The clock advances.
Tick ==
  /\ now < MaxTime
  /\ now' = now + 1
  /\ UNCHANGED <<norm, routes, reports, objects, nextId, last, proc>>

Next ==
  \/ PostReports
  \/ PostReportsJson
  \/ PostAnalyze
  \/ PostAnalyzeJson
  \/ GetReports
  \/ GetReportById
  \/ DeleteReportById
  \/ PostChat
  \/ PostGenerateContent
  \/ Tick

Spec == Init /\ [][Next]_vars

\* The request handled last: last.req is its number among the requests sent
\* to its route.
LastRequest ==
  IF last.route = "save" THEN SaveRequests[last.req]
  ELSE IF last.route = "analyze" THEN AnalyzeRequests[last.req]
  ELSE NoRequest

(***************************************************************************)
(* The upload step of POST /api/reports, for every file name               *)
(***************************************************************************)
\* The file names: every sequence of at most MaxNameLen of these characters.
MaxNameLen == 3
FileNameChars == {"a", "_", " ", ".", "-"}
FileNames == UNION {[1..n -> FileNameChars] : n \in 0..MaxNameLen}

InitUpload ==
  /\ \E name \in FileNames : norm = NormReceived(FormWithFileNamed(FormNoName, name))
  /\ routes = "unified"
  /\ ServerStarted

\* if (req.file) imageUrl = await uploadReportImage(req.file)
UploadFile ==
  /\ norm.stage = "received"
  /\ norm.req.hasFile
  /\ \E backendOk \in BOOLEAN :
       \E up \in {uploadReportImage(norm.req.fileName, now, objects, backendOk)} :
         /\ objects' = IF up.ok THEN objects \cup {up.key} ELSE objects
         /\ norm' = [norm EXCEPT !.stage = IF up.ok THEN "uploaded" ELSE "failed"]
  /\ UNCHANGED <<routes, reports, nextId, now, last, proc>>

NextUpload == UploadFile \/ Tick

SpecUpload == InitUpload /\ [][NextUpload]_vars

(***************************************************************************)
(* The start of the process and the serverless handler                     *)
(***************************************************************************)
\* The invocations of the serverless handler in one behaviour.
MaxInvocations == 3

InitProcess ==
  /\ \E mode \in {"node", "vercel"}, keys \in SUBSET RequiredEnvVars :
       proc = Process(mode, keys, "loading", 0, 0, [i \in 1..MaxInvocations |-> Idle], {})
  /\ norm = NormIdle
  /\ routes = "unified"
  /\ reports = {}
  /\ objects = {}
  /\ nextId = 1
  /\ now = 0
  /\ last = Handled("none", 0, Undefined, [db |-> TRUE, ai |-> Unasked, img |-> Unasked],
                    Outcome("none", 0, "", {}, <<>>, NoRow))

\* index.ts at load: validateEnvironment() in a try, process.exit(1) in the catch.
ValidateAtLoad ==
  /\ proc.phase = "loading"
  /\ proc' = [proc EXCEPT !.phase = IF validateEnvironment(proc.keys) THEN "validated"
                                    ELSE "exited"]
  /\ UNCHANGED <<norm, routes, reports, objects, nextId, now, last>>

\* The start at the end of index.ts: nothing on Vercel, else createServer
\* and app.listen.
StartServer ==
  /\ proc.phase = "validated"
  /\ proc' = IF proc.mode = "vercel" THEN [proc EXCEPT !.phase = "serverless"]
             ELSE [proc EXCEPT !.phase = "listening", !.created = @ + 1,
                               !.server = proc.created + 1]
  /\ UNCHANGED <<norm, routes, reports, objects, nextId, now, last>>

\* The listening server is handed a request.
ServeListening ==
  /\ proc.phase = "listening"
  /\ proc' = [proc EXCEPT !.served = @ \cup {proc.server}]
  /\ UNCHANGED <<norm, routes, reports, objects, nextId, now, last>>

\* handler(req, res) up to its await: with no cached server it calls
\* createServer and waits for it, else it hands the request to the cached one.
HandlerEnter(i) ==
  /\ proc.phase = "serverless"
  /\ proc.inv[i].pc = "idle"
  /\ proc' = IF proc.server = 0
               THEN [proc EXCEPT !.created = @ + 1,
                                 !.inv[i] = [pc |-> "creating", inst |-> proc.created + 1]]
               ELSE [proc EXCEPT !.inv[i] = [pc |-> "done", inst |-> proc.server],
                                 !.served = @ \cup {proc.server}]
  /\ UNCHANGED <<norm, routes, reports, objects, nextId, now, last>>

\* createServer has resolved: server = <the instance>; return server(req, res).
HandlerResume(i) ==
  /\ proc.phase = "serverless"
  /\ proc.inv[i].pc = "creating"
  /\ proc' = [proc EXCEPT !.server = proc.inv[i].inst,
                          !.inv[i].pc = "done",
                          !.served = @ \cup {proc.inv[i].inst}]
  /\ UNCHANGED <<norm, routes, reports, objects, nextId, now, last>>

NextProcess ==
  \/ ValidateAtLoad
  \/ StartServer
  \/ ServeListening
  \/ \E i \in 1..MaxInvocations : HandlerEnter(i)
  \/ \E i \in 1..MaxInvocations : HandlerResume(i)

SpecProcess == InitProcess /\ [][NextProcess]_vars

(***************************************************************************)
(* createReport on the reports it can be handed                            *)
(***************************************************************************)
\* salesChannels of a report: absent, empty, one string, lists of names,
\* names with a double quote, a comma, a brace or a backslash.
ChannelInputs ==
  {Undefined, Null, Str(<<>>), Str(<<"a">>), Arr(<<>>),
   Arr(<<Str(<<"a">>)>>),
   Arr(<<Str(<<"a">>), Str(<<"b">>)>>),
   Arr(<<Str(<<"a", Quote, ",", Quote, "b">>)>>),
   Arr(<<Str(<<"a", ",", "b">>)>>),
   Arr(<<Str(<<"a", Backslash>>), Str(<<"}">>)>>)}

\* The reports handed to createReport: a validated report with these
\* salesChannels, with and without the optional variants.
CreateInputs ==
  {[reportToCreate(ValidFields, Undefined, Null)
      EXCEPT !["salesChannels"] = ch, !["variants"] = v] :
     ch \in ChannelInputs, v \in {Undefined, Str(cClay)}}

\* handed: the reports createReport inserted, by id.
CreateStage(handed) == [stage |-> "create", handed |-> handed]

InitCreate ==
  /\ norm = CreateStage(<<>>)
  /\ routes = "unified"
  /\ ServerStarted

\* storage.createReport(report)
StorageCreate ==
  /\ norm.stage = "create"
  /\ nextId <= MaxReports
  /\ \E r \in CreateInputs, backendOk \in BOOLEAN :
       \E c \in {createReport(r, nextId, now, backendOk)} :
         /\ c.ok
         /\ reports' = reports \cup {c.row}
         /\ nextId' = nextId + 1
         /\ norm' = CreateStage(Append(norm.handed, r))
  /\ UNCHANGED <<routes, objects, now, last, proc>>

NextCreate == StorageCreate \/ Tick

SpecCreate == InitCreate /\ [][NextCreate]_vars

(***************************************************************************)
(* Properties of the normalization pipeline (checked under SpecNorm)       *)
(***************************************************************************)
\* The body a request carries, envelope merged, before any middleware.
RawFields == FlattenProductData(norm.req.body)
\* salesChannels as it arrives at preprocessReportData, when the request
\* carries it at the top level.
ArrivingChannels == ParsedBody(norm.req).f["salesChannels"]
TopLevelChannels == ~norm.req.body.hasPD
Normalized == norm.stage \in {"reshaped", "validated"}
NormalizedChannels == norm.fields["salesChannels"]

NonEmptyStr(v) == v.s # <<>>
\* The pieces of s between commas, trimmed, the empty ones dropped.
TrimmedPieces(s) ==
  SelectSeq([i \in 1..Len(Split(s, ",")) |-> Str(Trim(Split(s, ",")[i]))], NonEmptyStr)

DecodesToArray(s) == JSONParse(s).ok /\ IsArray(JSONParse(s).v)
OnlineRetail == Arr(<<Str(cOnline), Str(cRetail)>>)
OnlineRetailJson == StringifyStrings(<<cOnline, cRetail>>)
OnlineRetailCommas == cOnline \o <<",", " ">> \o cRetail \o <<" ", ",", " ">>

C7Holds(s, out) ==
  /\ DecodesToArray(s) => out = JSONParse(s).v
  /\ ~JSONParse(s).ok => out = Arr(TrimmedPieces(s))
  /\ s = OnlineRetailJson => out = OnlineRetail
  /\ s = OnlineRetailCommas => out = OnlineRetail

\* C7: when salesChannels arrives as a single string, the normalized value is
\* the decoded array if the string JSON-decodes to an array, and the trimmed,
\* non-empty comma-separated pieces if JSON-decoding fails; '["Online","Retail"]'
\* and "Online, Retail , " both yield ["Online","Retail"].
C7_StringDecodeThenSplit ==
  (Normalized /\ TopLevelChannels /\ TypeOf(ArrivingChannels) = "string")
    => C7Holds(ArrivingChannels.s, NormalizedChannels)

\* C7's case: the comma-separated string has been normalized and validated.
C7_Witness ==
  /\ norm.stage = "validated"
  /\ TopLevelChannels
  /\ ArrivingChannels = Str(OnlineRetailCommas)
  /\ NormalizedChannels = OnlineRetail
  /\ norm.result.success

\* What one element contributes: the members of the array it decodes to, or itself.
Contribution(x) ==
  IF TypeOf(x) = "string" /\ DecodesToArray(x.s) THEN JSONParse(x.s).v.a ELSE <<x>>

RECURSIVE SplicedFromEnd(_)
SplicedFromEnd(xs) ==
  IF xs = <<>> THEN <<>>
  ELSE SplicedFromEnd(SubSeq(xs, 1, Len(xs) - 1)) \o Contribution(xs[Len(xs)])

PlainStrings(xs) ==
  \A i \in 1..Len(xs) : TypeOf(xs[i]) = "string" /\ ~DecodesToArray(xs[i].s)

OnlineNested == Arr(<<Str(cOnline), Str(StringifyStrings(<<cRetail, cDirect>>))>>)
OnlineRetailDirect == Arr(<<Str(cOnline), Str(cRetail), Str(cDirect)>>)

C8Holds(v, out) ==
  /\ out = Arr(SplicedFromEnd(v.a))
  /\ PlainStrings(v.a) => out = v
  /\ v = OnlineNested => out = OnlineRetailDirect

\* C8: when salesChannels arrives as an array, every string element that
\* JSON-decodes to an array is replaced in place by that array's members (one
\* level, in order), every other element is kept as it was, and so an array of
\* plain strings is returned unchanged.
C8_ArraySpliceOneLevel ==
  (Normalized /\ TopLevelChannels /\ IsArray(ArrivingChannels))
    => C8Holds(ArrivingChannels, NormalizedChannels)

\* C8's case: the array with a JSON-encoded sub-array has been flattened.
C8_Witness ==
  /\ norm.stage = "validated"
  /\ TopLevelChannels
  /\ ArrivingChannels = OnlineNested
  /\ NormalizedChannels = OnlineRetailDirect
  /\ norm.result.success

\* The required free-text fields.
TextRequired == RequiredStrings \ NumericFields
NonBlank(v) == TypeOf(v) = "string" /\ Trim(v.s) # <<>>
\* v converts to a number that is not negative.
NonNegativeNumber(v) ==
  /\ v.t \in {"string", "number"}
  /\ ToNum(v).t = "number"
  /\ ToNum(v).n >= 0
AtLeastOneChannel(v) == IsArray(v) /\ Len(v.a) >= 1

\* The fields of f that break a condition of the validation contract.
Offending(f) ==
  {k \in TextRequired : ~NonBlank(f[k])}
  \cup {k \in {"costOfGoods", "retailPrice"} : ~NonNegativeNumber(f[k])}
  \cup (IF AtLeastOneChannel(f["salesChannels"]) THEN {} ELSE {"salesChannels"})

Named(issues, k) == \E i \in issues : i.field = k

\* C5: validate accepts only an input whose required strings are non-empty
\* after trimming, whose salesChannels has an entry and whose costOfGoods and
\* retailPrice convert to non-negative numbers; for any other input it
\* answers with issues that name each offending field.
C5_ValidateContract ==
  norm.stage = "validated" =>
    /\ norm.result.success => Offending(norm.fields) = {}
    /\ \A k \in Offending(norm.fields) : Named(norm.result.issues, k)

\* A valid ProductInput, as the specification describes one.
ValidProductInput(x) ==
  /\ \A k \in TextRequired : NonBlank(x[k])
  /\ \A k \in {"costOfGoods", "retailPrice"} :
       NonNegativeNumber(x[k]) /\ (TypeOf(x[k]) = "string" => Trim(x[k].s) # <<>>)
  /\ x["promoPrice"] \in {Undefined, Str(<<>>)} \/ NonNegativeNumber(x["promoPrice"])
  /\ \A k \in {"productImage", "variants"} : x[k] = Undefined \/ TypeOf(x[k]) = "string"
  /\ AtLeastOneChannel(x["salesChannels"])
  /\ \A i \in 1..Len(x["salesChannels"].a) :
       TypeOf(x["salesChannels"].a[i]) = "string" /\ x["salesChannels"].a[i].s # <<>>

HasDebugMarker(v) ==
  TypeOf(v) = "string" /\ (Includes(v.s, MarkerDebug) \/ Includes(v.s, MarkerExpress))

\* Field k of the result is field k of the input, up to the documented coercions.
FieldKept(k, xv, rv) ==
  CASE xv = Str(<<>>) -> rv \in {Undefined, Str(<<>>)}
    [] k \in NumericFields /\ xv # Str(<<>>) ->
         rv = (IF TypeOf(xv) = "number" THEN Str(ToStr(xv)) ELSE xv)
    [] k = "salesChannels" -> PlainStrings(xv.a) => rv = xv
    [] k \in fieldsToClean /\ HasDebugMarker(xv) -> TRUE
    [] OTHER -> rv = xv

\* C6: for every valid ProductInput x, validate(normalize(x)) succeeds and each
\* field of the result is the field of x, except for numeric-to-string,
\* salesChannels decoding, envelope flattening, empty string to absent and the
\* truncation of a field that contains a debug marker.
C6_ValidInputRoundTrips ==
  (norm.stage = "validated" /\ ValidProductInput(RawFields)) =>
    /\ norm.result.success
    /\ \A k \in SchemaFields : FieldKept(k, RawFields[k], norm.result.data[k])

\* The shapes that cannot be coerced into a non-empty sequence of strings.
Uncoercible(v) ==
  \/ v \in {Undefined, Null}
  \/ v.t = "number"
  \/ TypeOf(v) = "string" /\ (v.s = <<>> \/ (JSONParse(v.s).ok /\ ~IsArray(JSONParse(v.s).v)))

SaveVerdict ==
  IF routes = "unified" THEN SaveTable[last.req].result
  ELSE SaveJsonTable[last.req].result
AnalyzeVerdict ==
  IF routes = "unified" THEN AnalyzeTable[last.req].result
  ELSE AnalyzeJsonTable[last.req].result
LastVerdict == IF last.route = "save" THEN SaveVerdict ELSE AnalyzeVerdict

CallsOf(op) == {i \in 1..Len(last.out.calls) : last.out.calls[i].op = op}

\* C1: a POST /reports or POST /analyze request whose normalized body fails
\* validation is answered 400 with the Validator's issues, and no call to the
\* AI Gateway or to the Persistence Adapter is issued during the request,
\* also when a file is attached.
C1_InvalidBodyNoCalls ==
  (last.route \in {"save", "analyze"} /\ ~LastVerdict.success) =>
    /\ last.out.status = 400
    /\ last.out.issues = LastVerdict.issues
    /\ last.out.calls = <<>>

\* C1's failing input has been handled: the file of a form without
\* productName was uploaded, and then the form was refused.
C1_Witness ==
  /\ last.route = "save"
  /\ LastRequest = FormWithFile(FormNoName)
  /\ last.out.status = 400
  /\ Named(last.out.issues, "productName")
  /\ last.out.calls = <<Call("uploadImage", TRUE, getPublicUrl(ObjectKey(now, FileSpaced)))>>

\* C2: in POST /reports with a file attached, create is issued only after
\* uploadImage returned; when uploadImage fails the request ends with an error
\* answer and create is not issued; the created report's productImage is the
\* URL uploadImage returned.
C2_CreateAfterUpload ==
  (last.route = "save" /\ LastRequest.hasFile) =>
    /\ \A i \in CallsOf("create") :
         \E j \in CallsOf("uploadImage") : j < i /\ last.out.calls[j].ok
    /\ (\E j \in CallsOf("uploadImage") : ~last.out.calls[j].ok) =>
         (last.out.status >= 400 /\ CallsOf("create") = {})
    /\ last.out.status = 201 =>
         /\ last.out.row \in reports
         /\ \E j \in CallsOf("uploadImage") :
              /\ TypeOf(last.out.calls[j].val) = "string"
              /\ last.out.row.cols["product_image"] = last.out.calls[j].val

\* C2's case: a form with a file was saved.
C2_Witness ==
  /\ last.route = "save"
  /\ LastRequest = FormWithFile(FormFields)
  /\ last.out.status = 201
  /\ last.out.calls = <<Call("uploadImage", TRUE, getPublicUrl(ObjectKey(now, FileSpaced))),
                        Call("create", TRUE, Null)>>
  /\ last.out.row.cols["product_image"] = getPublicUrl(ObjectKey(now, FileSpaced))

IsDataUri(v) == TypeOf(v) = "string" /\ StartsWith(v.s, <<"d", "a", "t", "a", ":">>)

\* C3: the productImage of every stored report is null or the URL of an
\* uploaded object, never a data URI from the body; the report a save
\* creates carries the URL its own upload returned, and null if it uploaded
\* nothing.
C3_StoredImageNullOrUploaded ==
  /\ \A row \in reports :
       \/ row.cols["product_image"] = Null
       \/ /\ ~IsDataUri(row.cols["product_image"])
          /\ \E key \in objects : row.cols["product_image"] = getPublicUrl(key)
  /\ (last.route = "save" /\ last.out.status = 201) =>
       /\ CallsOf("uploadImage") = {} => last.out.row.cols["product_image"] = Null
       /\ \A j \in CallsOf("uploadImage") :
            last.out.row.cols["product_image"] = last.out.calls[j].val

\* C3's case: a body with a productImage data URI and no file was saved.
C3_Witness ==
  /\ last.route = "save"
  /\ LastRequest \in {Form(FormDataUri), Envelope(JsonDataUri)}
  /\ last.out.status = 201
  /\ last.out.row \in reports
  /\ last.out.row.cols["product_image"] = Null

IdsOf(rows) == {r.id : r \in rows}

Validated == norm.stage = "validated"
\* The Report the handler hands to create for validated data (no file).
HandedToCreate(data) == reportToCreate(data, Undefined, Null)

IsZero(v) == v \in {Num(0, 0), Str(<<"0">>)}

\* A number, or a non-empty string, is normalized to the string of its value.
NumericAsString(v, out) ==
  /\ TypeOf(v) = "number" /\ v # NaN => (TypeOf(out) = "string" /\ ToNum(out) = v)
  /\ (TypeOf(v) = "string" /\ v.s # <<>>) => out = v

\* A submitted 0 differs, in the Report handed to create, from a field that
\* was not provided.
ZeroDistinguished(k) ==
  HandedToCreate(norm.result.data)[k]
    # HandedToCreate([norm.result.data EXCEPT ![k] = Undefined])[k]

\* C11: a numeric field submitted as a number or as a string is normalized to
\* the string of its value, an empty string becomes unset, and a submitted 0
\* or "0" stays distinguishable from a field that was not provided, in the
\* normalized input and in the Report handed to create.
C11_NumericFieldsNormalized ==
  Normalized =>
    \A k \in NumericFields :
      /\ NumericAsString(RawFields[k], norm.fields[k])
      /\ RawFields[k] = Str(<<>>) => norm.fields[k] = Undefined
      /\ IsZero(RawFields[k]) => norm.fields[k] # Undefined
      /\ (Validated /\ norm.result.success /\ IsZero(RawFields[k])) => ZeroDistinguished(k)

\* C11's failing input was handled: promoPrice "0" passed validation and the
\* Report handed to create carries null, as it does without a promoPrice.
C11_Witness ==
  /\ Validated
  /\ norm.result.success
  /\ RawFields["promoPrice"] = Str(<<"0">>)
  /\ norm.fields["promoPrice"] = Str(<<"0">>)
  /\ HandedToCreate(norm.result.data)["promoPrice"] = Null

\* The body the handler receives has a productData envelope.
HasEnvelope == norm.body.hasPD
\* The top-level record after every field of the envelope was copied into it.
EnvelopeCopied ==
  [k \in Fields |-> IF norm.body.pd[k] # Undefined THEN norm.body.pd[k] ELSE norm.body.f[k]]
\* The steps of the handler that follow the envelope's.
AfterEnvelope(f) ==
  NumericStep(EmptyToUndefinedStep(PatchStep(CleanStep(ObjectToArrayStep(f)))))
\* The text fields no later step rewrites.
PlainText == RequiredStrings \ (fieldsToClean \cup NumericFields)

\* C12: when the body of POST /reports has a productData envelope, every field
\* of the envelope is copied into the top-level record before validation and
\* the productData key is removed: the Validator reads the flattened record.
C12_EnvelopeFlattened ==
  (Normalized /\ HasEnvelope) =>
    /\ norm.fields = AfterEnvelope(EnvelopeCopied)
    /\ DOMAIN norm.fields = Fields
    /\ \A k \in PlainText :
         (TypeOf(norm.body.pd[k]) = "string" /\ norm.body.pd[k].s # <<>>) =>
           norm.fields[k] = norm.body.pd[k]
    /\ IsArray(ObjectToArray(norm.body.pd["salesChannels"])) =>
         norm.fields["salesChannels"] = ObjectToArray(norm.body.pd["salesChannels"])
    /\ Validated => norm.result = safeParse(AfterEnvelope(EnvelopeCopied))

\* C12's case: a valid record sent inside the envelope passed validation with
\* the envelope's values.
C12_Witness ==
  /\ Validated
  /\ HasEnvelope
  /\ norm.req.ctype = "json"
  /\ norm.body.f["productName"] = Undefined
  /\ norm.body.f["salesChannels"] = Arr(<<>>)
  /\ norm.result.success
  /\ norm.result.data["productName"] = Str(cMug)
  /\ norm.result.data["salesChannels"] = OnlineRetail

\* The ProductInput fields that hold text.
TextFields == SchemaFields \ {"salesChannels"}

\* C13: before validation, every ProductInput field submitted as the empty
\* string is converted to absent, for required and optional fields alike, so
\* the Validator never receives an empty string for a submitted field.
C13_EmptyStringBecomesAbsent ==
  Normalized =>
    \A k \in TextFields : RawFields[k] = Str(<<>>) => norm.fields[k] = Undefined

\* C13's failing input was handled: promoPrice "" reached the Validator as "".
C13_Witness ==
  /\ Validated
  /\ RawFields["promoPrice"] = Str(<<>>)
  /\ norm.fields["promoPrice"] = Str(<<>>)
  /\ norm.result.success
  /\ norm.result.data["promoPrice"] = Str(<<>>)

(***************************************************************************)
(* Reading and deleting reports (checked under Spec)                       *)
(***************************************************************************)
Listed == last.route = "list" /\ last.out.status = 200
DistinctTimestamps ==
  \A r, q \in reports : r # q => r.created_at # q.created_at

\* C14: listReports returns all stored Reports, ordered by createdAt
\* descending, for any stored Reports with distinct timestamps and after any
\* sequence of creates and deletes.
C14_ListOrderedByCreatedAtDesc ==
  Listed =>
    /\ Len(last.out.list) = Cardinality(reports)
    /\ {last.out.list[i] : i \in DOMAIN last.out.list}
         = {transformReportFields(r) : r \in reports}
    /\ DistinctTimestamps =>
         \A i, j \in DOMAIN last.out.list :
           i < j => last.out.list[i].createdAt > last.out.list[j].createdAt

\* C14's case: two reports created at different times were listed, the later
\* one first.
C14_Witness ==
  /\ Listed
  /\ Len(last.out.list) = 2
  /\ last.out.list[1].id = 2
  /\ last.out.list[1].createdAt = 1
  /\ last.out.list[2].id = 1
  /\ last.out.list[2].createdAt = 0

\* The id a GET or DELETE /reports/{id} request names.
NamedId == parseInt(last.arg.s).n
NamesAnId == parseInt(last.arg.s) # NaN
\* The storage call of the last request returned.
StorageReturned(op) ==
  last.out.calls # <<>> /\ last.out.calls[1].op = op /\ last.out.calls[1].ok

\* C15: getReport(id) for an id that matches no stored Report returns the
\* absent outcome without raising, and GET /reports/{id} answers 404; for the
\* id of a stored Report it returns that Report and the route answers 200.
C15_GetReportAbsentIs404 ==
  (last.route = "get" /\ NamesAnId /\ last.env.db) =>
    /\ StorageReturned("getReport")
    /\ (\A r \in reports : r.id # NamedId) =>
         (last.out.status = 404 /\ last.out.kind = "Report not found"
            /\ last.out.row = NoRow)
    /\ \A r \in reports : r.id = NamedId =>
         (last.out.status = 200 /\ last.out.row = r)

\* C15's cases: an id with no report was asked for while a report is stored.
C15_Witness ==
  /\ last.route = "get"
  /\ last.arg = Str(<<"2">>)
  /\ IdsOf(reports) = {1}
  /\ last.out.status = 404
  /\ StorageReturned("getReport")

\* The last request is a DELETE /reports/{id} with a numeric id that the
\* database answered; primed: the request this step handled.
DeleteAnswered(l) == l.route = "delete" /\ parseInt(l.arg.s) # NaN /\ l.env.db
OtherIds(rows, id) == {r \in rows : r.id # id}

\* C16: deleteReport is idempotent.  A delete the database answers succeeds
\* whether or not a Report has the id; it leaves a store without that id
\* unchanged, so deleting the same id again gives the same store and the same
\* answer.
C16_DeleteIdempotent ==
  [][DeleteAnswered(last') =>
       /\ last'.out.status = (IF routes = "unified" THEN 204 ELSE 200)
       /\ last'.out.calls = <<Call("deleteReport", TRUE, Null)>>
       /\ reports' = OtherIds(reports, parseInt(last'.arg.s).n)
       /\ (\A r \in reports : r.id # parseInt(last'.arg.s).n) => reports' = reports
       /\ OtherIds(reports', parseInt(last'.arg.s).n) = reports'
       /\ (DeleteAnswered(last) /\ last.arg = last'.arg) =>
            (reports' = reports /\ last'.out = last.out)
    ]_vars

\* C16's case: an id that no report ever had was deleted while a report is
\* stored, and the delete succeeded.
C16_Witness ==
  /\ DeleteAnswered(last)
  /\ last.arg = Str(<<"2">>)
  /\ nextId = 2
  /\ IdsOf(reports) = {1}
  /\ last.out.status = 204

(***************************************************************************)
(* The AI routes (checked under Spec)                                      *)
(***************************************************************************)
\* The text analysis succeeded and the image analysis was called and failed.
ImageAnalysisFailed ==
  /\ last.route = "analyze"
  /\ last.out.calls # <<>>
  /\ last.out.calls[1].op = "generateProductAnalysis"
  /\ last.out.calls[1].ok
  /\ last.env.img = UpstreamError

\* The last request with its productImage left out.
WithoutImage == [LastRequest EXCEPT !.body.f["productImage"] = Undefined]
\* What POST /analyze answers to it when the upstream replies the same.
AnswerWithoutImage ==
  Analyze(PrepareAnalyze(WithoutImage), TRUE,
          generateProductAnalysis(<<last.env.ai, last.env.ai>>), Throws(1))

\* C17: in POST /analyze, when the text analysis succeeds and the image
\* analysis fails, the answer is 200 with exactly the analysis document the
\* same input without an image produces; no error reaches the caller.
C17_ImageFailureSwallowed ==
  ImageAnalysisFailed =>
    /\ last.out.status = 200
    /\ last.out.calls = <<Call("generateProductAnalysis", TRUE, Num(1, 0)),
                          Call("analyzeProductImage", FALSE, Num(1, 0))>>
    /\ AnswerWithoutImage.status = 200
    /\ AnswerWithoutImage.calls = <<Call("generateProductAnalysis", TRUE, Num(1, 0))>>
    /\ last.out.doc = AnswerWithoutImage.doc
    /\ Get(VisualIdentity(last.out.doc), cImageAnalysis) = Undefined

\* C17's case: a product with a data URI image was analyzed, the image
\* analysis failed, and the text analysis document was answered.
C17_Witness ==
  /\ ImageAnalysisFailed
  /\ LastRequest = Json(JsonDataUri)
  /\ last.env.ai = Replied(Str(ReplyDocument))
  /\ last.out.status = 200
  /\ last.out.doc = JSONParse(ReplyDocument).v
  /\ VisualIdentity(last.out.doc).t = "object"

\* POST /analyze called generateProductAnalysis.
TextAnalysisAsked == last.route = "analyze" /\ Asked(last.out, {"generateProductAnalysis"})
\* The content of the upstream's reply is JSON text.
ValidJsonReply(reply) ==
  /\ ~reply.err
  /\ TypeOf(reply.content) = "string"
  /\ JSONParse(reply.content.s).ok

\* C18: generateProductAnalysis issues exactly one upstream completion call
\* and never retries; if the call errors, or its response is not valid JSON,
\* the operation fails and POST /analyze answers 500 without another
\* upstream call.
C18_OneCallNoRetry ==
  TextAnalysisAsked =>
    /\ last.out.calls[1].val = Num(1, 0)
    /\ ~ValidJsonReply(last.env.ai) =>
         /\ last.out.status = 500
         /\ last.out.calls = <<Call("generateProductAnalysis", FALSE, Num(1, 0))>>

\* C18's failing input was handled: the upstream replied with no content and
\* POST /analyze answered 200 with an empty document.
C18_Witness ==
  /\ TextAnalysisAsked
  /\ last.env.ai = Replied(Null)
  /\ last.out.status = 200
  /\ last.out.doc = Obj(<<>>, <<>>)

\* POST /chat called chatWithDatabase and the upstream replied.
ChatReplied ==
  /\ last.route = "chat"
  /\ Asked(last.out, {"chatWithDatabase"})
  /\ ~last.env.ai.err
\* The text the reply carries ("" when it carries none) and its parse.
ReplyText == IF TypeOf(last.env.ai.content) = "string" THEN last.env.ai.content.s ELSE <<>>
ReplyParse == JSONParse(ReplyText)
FallbackAnswer == Obj(<<cMessage, cRelatedReports>>, <<ChatFallbackMessage, Arr(<<>>)>>)
OwnAnswer(v) == Obj(<<cMessage, cRelatedReports>>, <<Get(v, cMessage), Get(v, cRelatedReports)>>)
OwnOrDefaultAnswer(v) ==
  Obj(<<cMessage, cRelatedReports>>,
      <<IF Truthy(Get(v, cMessage)) THEN Get(v, cMessage) ELSE ChatDefaultMessage,
        IF Truthy(Get(v, cRelatedReports)) THEN Get(v, cRelatedReports) ELSE Arr(<<>>)>>)

\* C19 as stated: a reply that cannot be parsed as JSON gives the fixed
\* fallback message with an empty relatedReports and no failure reaches the
\* caller; a reply that parses gives its own message and relatedReports.
C19_AsStated ==
  ChatReplied =>
    /\ last.out.status = 200
    /\ last.out.doc = IF ReplyParse.ok THEN OwnAnswer(ReplyParse.v) ELSE FallbackAnswer

\* C19: a non-empty reply that cannot be parsed as JSON, or that parses to
\* null, gives the fixed fallback message with an empty relatedReports, and
\* no failure reaches the caller; an empty reply is read as the empty
\* object; any other reply gives its own message when it has a non-empty
\* one, else the default message, and its own relatedReports when it has
\* them, else the empty list.
C19_ParseFailureFallsBack ==
  ChatReplied =>
    /\ last.out.status = 200
    /\ last.out.doc =
         IF ReplyText = <<>> THEN OwnOrDefaultAnswer(Obj(<<>>, <<>>))
         ELSE IF ~ReplyParse.ok \/ ReplyParse.v = Null THEN FallbackAnswer
         ELSE OwnOrDefaultAnswer(ReplyParse.v)

\* The reply was not JSON and the chat route answered the fallback.
C19_Witness ==
  /\ ChatReplied
  /\ ReplyText # <<>>
  /\ ~ReplyParse.ok
  /\ last.out.status = 200
  /\ last.out.doc = FallbackAnswer

(***************************************************************************)
(* The bucket (checked under SpecUpload)                                   *)
(***************************************************************************)
\* Where the timestamp prefix of a key ends, and the name after it.
FirstDash(k) == CHOOSE i \in 1..Len(k) : k[i] = "-" /\ \A j \in 1..(i - 1) : k[j] # "-"
KeyPrefix(k) == SubSeq(k, 1, FirstDash(k) - 1)
KeyName(k) == SubSeq(k, FirstDash(k) + 1, Len(k))
SanitizedName(n) ==
  /\ \A i \in 1..Len(n) : n[i] \in NameChars \cup {"_"}
  /\ \A i \in 1..(Len(n) - 1) : ~(n[i] = "_" /\ n[i + 1] = "_")
  /\ n # <<>> => n[1] # "_" /\ n[Len(n)] # "_"

\* C20: the key of every object the save route uploads is a timestamp, a
\* dash and a sanitized name (letters, digits, dot, dash and single
\* underscores, none at either end) that is never empty.
C20_ObjectKeyNeverEmptyName ==
  \A k \in objects :
    /\ \E i \in 1..Len(k) : k[i] = "-"
    /\ KeyPrefix(k) # <<>>
    /\ \A i \in 1..Len(KeyPrefix(k)) : KeyPrefix(k)[i] \in Digits
    /\ SanitizedName(KeyName(k))
    /\ KeyName(k) # <<>>

\* A file whose name sanitizes to the empty string was uploaded, and its
\* key is the timestamp and the dash alone.
C20_Witness ==
  /\ norm.stage = "uploaded"
  /\ norm.req.fileName # <<>>
  /\ cleanedName(norm.req.fileName) = <<>>
  /\ (NatToStr(now) \o <<"-">>) \in objects

(***************************************************************************)
(* Uploads in the same millisecond (checked under Spec)                    *)
(***************************************************************************)
\* The save request handled last attached a file and its upload threw.
UploadFailed(l) ==
  /\ l.route = "save"
  /\ SaveRequests[l.req].hasFile
  /\ ~Returned(l.out, "uploadImage")
\* The key the upload of the request numbered i gets at the present time.
KeyNow(i) == ObjectKey(now, SaveRequests[i].fileName)

\* C21: any two uploads get distinct object keys, so no upload fails because
\* its key is already in the bucket: whenever the upload of a save request
\* fails, the bucket did not hold the key of that upload.
C21_NoKeyCollision ==
  [][(last' # last /\ UploadFailed(last')) => KeyNow(last'.req) \notin objects]_vars

\* A second file of the same name was sent in the same millisecond: its
\* upload failed and the bucket holds its key, stored by the first.
C21_Witness ==
  /\ UploadFailed(last)
  /\ KeyNow(last.req) \in objects

C27_CreateServerOnce ==
  proc.mode = "vercel" =>
    /\ proc.created <= 1
    /\ \A i \in 1..Len(proc.inv) : proc.inv[i].pc = "done" => proc.inv[i].inst = 1

\* Two invocations arrived on a cold start: createServer was called twice and
\* the requests went to different instances.
C27_Witness ==
  /\ proc.mode = "vercel"
  /\ proc.created = 2
  /\ proc.served = {1, 2}

(***************************************************************************)
(* The bodies of the error responses (checked under Spec)                  *)
(***************************************************************************)
\* The keys of the JSON body a route handler sends with an error status:
\* res.status(..).json({ message, ... }) of each handler.
ErrorResponseKeys(out, unified) ==
  IF out.kind = "Image upload failed" THEN {"message", "error"}
  ELSE IF out.kind = "Invalid analysis JSON" THEN {"message", "error", "received"}
  ELSE IF out.stage = "validate" THEN {"message", "errors"}
  ELSE IF out.kind = "Failed to save report" /\ unified THEN {"message", "error"}
  ELSE {"message"}
IsErrorResponse(out) == out.status \in {400, 404, 500}

\* C23: every error response (400, 404 or 500) carries a machine-readable
\* code and a human-readable message, and none carries a stack trace.
C23_ErrorsCarryCodeAndMessage ==
  IsErrorResponse(last.out) =>
    /\ {"code", "message"} \subseteq ErrorResponseKeys(last.out, routes = "unified")
    /\ "stack" \notin ErrorResponseKeys(last.out, routes = "unified")

\* A report that does not exist was asked for: the 404 carries a message only.
C23_Witness ==
  /\ last.route = "get"
  /\ last.out.status = 404
  /\ ErrorResponseKeys(last.out, routes = "unified") = {"message"}

(***************************************************************************)
(* The clean-up of pasted console output (checked under SpecNorm)          *)
(***************************************************************************)
\* The record the clean-up step reads, and a field of it that holds text.
BeforeCleanUp == FlattenProductData(norm.body)
HoldsText(k) == TypeOf(BeforeCleanUp[k]) = "string" /\ BeforeCleanUp[k] # Str(<<>>)
\* The free-text fields: no other step of the normalization rewrites their text.
FreeText == TextFields \ NumericFields

\* C24: a field is changed by the clean-up only if it is one of materials,
\* variants, targetAudience, competitors and its text contains a debug
\* marker; an allow-listed field without a marker and every field outside
\* the allow-list are left unchanged.
C24_TruncatedOnlyWithMarker ==
  Normalized =>
    \A k \in FreeText :
      HoldsText(k) =>
        \/ norm.fields[k] = BeforeCleanUp[k]
        \/ k \in fieldsToClean /\ HasDebugMarker(BeforeCleanUp[k])

\* C24's failing input was handled: materials held two ordinary lines and
\* the normalized record holds the first line only.
C24_Witness ==
  /\ Normalized
  /\ BeforeCleanUp["materials"] = Str(cClay \o <<LF>> \o cMug)
  /\ norm.fields["materials"] = Str(cClay)

(***************************************************************************)
(* The payload of createReport (checked under SpecCreate)                  *)
(***************************************************************************)
\* The report a row was created from.
HandedFor(row) == norm.handed[row.id]
ArrayLiteral(v) ==
  /\ TypeOf(v) = "string"
  /\ Len(v.s) >= 2
  /\ v.s[1] = "{"
  /\ v.s[Len(v.s)] = "}"
NoChannels(v) == v \in {Undefined, Null, Str(<<>>), Arr(<<>>)}

\* C25: the payload createReport sends has every column key; a field that is
\* undefined in the input is sent as null, never left out, and sales_channels
\* is an array literal, the empty one when the field is absent or empty.
C25_PayloadHasEveryColumn ==
  \A row \in reports :
    /\ DOMAIN row.cols = Columns
    /\ \A c \in Columns :
         /\ row.cols[c] # Undefined
         /\ (c # "sales_channels" /\ HandedFor(row)[FieldOf(c)] = Undefined) =>
              row.cols[c] = Null
    /\ ArrayLiteral(row.cols["sales_channels"])
    /\ NoChannels(HandedFor(row)["salesChannels"]) =>
         row.cols["sales_channels"] = Str(<<"{", "}">>)

\* A report without variants and without salesChannels was inserted.
C25_Witness ==
  \E row \in reports :
    /\ HandedFor(row)["variants"] = Undefined
    /\ HandedFor(row)["salesChannels"] = Undefined
    /\ row.cols["variants"] = Null
    /\ row.cols["sales_channels"] = Str(<<"{", "}">>)

\* C28: the array literal of sales_channels is injective: two reports with
\* different lists of channel names never get the same literal.
C28_ArrayLiteralInjective ==
  \A r1, r2 \in reports :
    (/\ IsArray(HandedFor(r1)["salesChannels"])
     /\ IsArray(HandedFor(r2)["salesChannels"])
     /\ HandedFor(r1)["salesChannels"] # HandedFor(r2)["salesChannels"])
      => r1.cols["sales_channels"] # r2.cols["sales_channels"]

\* The lists <<a","b>> and <<a, b>> were both inserted, with one literal.
C28_Witness ==
  \E r1, r2 \in reports :
    /\ HandedFor(r1)["salesChannels"] = Arr(<<Str(<<"a">>), Str(<<"b">>)>>)
    /\ HandedFor(r2)["salesChannels"] = Arr(<<Str(<<"a", Quote, ",", Quote, "b">>)>>)
    /\ r1.cols["sales_channels"] = r2.cols["sales_channels"]

\* The URLs of the uploads the last request made that returned.
UploadedUrls ==
  {last.out.calls[j].val : j \in {k \in CallsOf("uploadImage") : last.out.calls[k].ok}}

\* C26: when the upload of a POST /api/reports request returned and the
\* request then failed before a report was created, the uploaded object is
\* still in the bucket and no stored report refers to it.
C26_ObjectStaysUnreferenced ==
  (last.route = "save" /\ last.out.status # 201) =>
    \A u \in UploadedUrls :
      /\ \E key \in objects : getPublicUrl(key) = u
      /\ \A r \in reports : r.cols["product_image"] # u

\* C26's case: the file of a form was uploaded, the insertion then failed
\* and the object is in the bucket beside the reports stored before.
C26_Witness ==
  /\ last.route = "save"
  /\ last.out.status = 500
  /\ last.out.calls = <<Call("uploadImage", TRUE, getPublicUrl(ObjectKey(now, FileSpaced))),
                        Call("create", FALSE, Null)>>
  /\ ObjectKey(now, FileSpaced) \in objects
  /\ reports # {}


\* The record the handler gives the Validator when the fields of the
\* envelope are sent at the top level of a body of the same content type.
SentAtTopLevel ==
  ReshapeBody(preprocessReportData(ParsedBody(
    Request(norm.req.ctype, Body(norm.req.body.pd, FALSE, NoFields), FALSE, <<>>))))

\* C29: a record sent inside a productData envelope normalizes to the same
\* record as the same fields sent at the top level; in particular a
\* salesChannels given as a comma-separated string or as an array with
\* JSON-encoded sub-arrays is decoded to the same sequence.
C29_EnvelopeSameAsTopLevel ==
  (Normalized /\ HasEnvelope) => norm.fields = SentAtTopLevel

\* C29's case: a comma-separated salesChannels inside the envelope was
\* normalized, to no channel, where the same text at the top level gives two.
C29_Witness ==
  /\ Normalized
  /\ HasEnvelope
  /\ norm.req.body.pd["salesChannels"] = Str(<<"1", ",", "2">>)
  /\ norm.fields["salesChannels"] = Arr(<<>>)
  /\ SentAtTopLevel["salesChannels"] = Arr(<<Str(<<"1">>), Str(<<"2">>)>>)

RECURSIVE SameShape(_, _)
\* b is a with at most its strings changed: an array is an array of the same
\* length whose elements correspond in order, an object has the same keys.
SameShape(a, b) ==
  CASE a.t = "string" -> b.t = "string"
    [] a.t = "array" ->
         /\ IsArray(b)
         /\ Len(b.a) = Len(a.a)
         /\ \A i \in 1..Len(a.a) : SameShape(a.a[i], b.a[i])
    [] a.t = "object" ->
         /\ b.t = "object"
         /\ b.k = a.k
         /\ \A i \in 1..Len(a.a) : SameShape(a.a[i], b.a[i])
    [] OTHER -> b = a

\* A JSON body has passed sanitizeInput and no later step.
Sanitized == norm.stage = "parsed" /\ norm.req.ctype = "json"

\* C30: sanitizeInput changes only string values and preserves the structure
\* of the body: every array of the body is still an array of the same length
\* and order, so that a salesChannels array of a JSON body reaches the
\* normalization as an array.
C30_SanitizePreservesStructure ==
  Sanitized =>
    \A k \in Fields :
      /\ SameShape(norm.req.body.f[k], norm.body.f[k])
      /\ SameShape(norm.req.body.pd[k], norm.body.pd[k])

\* C30's case: a JSON body with an array of two channels passed
\* sanitizeInput, which left an object with the keys 0 and 1.
C30_Witness ==
  /\ Sanitized
  /\ norm.req.body.f["salesChannels"] = Arr(<<Str(cOnline), Str(cRetail)>>)
  /\ norm.body.f["salesChannels"] =
       Obj(<<<<"0">>, <<"1">>>>, <<Str(cOnline), Str(cRetail)>>)
  /\ ~IsArray(norm.body.f["salesChannels"])

====
